---- MODULE Spec2Model ----
(***************************************************************************)
(* Multi-instance connection supervisor and webhook dispatcher of          *)
(* luna-whatsapp-service (src/src/services/baileys.ts, class               *)
(* BaileysService, lines 36-947) with the routes that drive it.            *)
(*                                                                         *)
(* Every asynchronous function is split at its awaits: the code between    *)
(* two awaits runs without interruption on the single-threaded event loop  *)
(* and is one action.                                                      *)
(***************************************************************************)
EXTENDS Integers, Sequences, FiniteSets, Bags, TLC

\* ------------------------------------------------------------------ bounds
Names == {"a", "b"}        \* instance names the callers use
MaxObjs == 2               \* Instance records ever allocated
MaxSockets == 2            \* session sockets ever made or asked for (Spec)
MaxBackoffSockets == 7     \* session sockets ever made or asked for (SpecBackoff)
MaxEvents == 2             \* webhook events ever dispatched (SpecWebhook, SpecEvents)
MaxBatch == 2              \* status updates one messages.update event carries
MaxNow == 90               \* minutes the sweeps let pass (SpecZombie)
MaxZombieSockets == 3      \* session sockets ever made (SpecZombie)
MaxAliveSockets == 2       \* session sockets ever made or asked for (SpecKeepAlive)
MaxLogoutSockets == 2      \* session sockets ever made or asked for (SpecLogout)
MaxRejectSockets == 2      \* session sockets ever made or asked for (SpecReject)
MaxBootSockets == 3        \* session sockets ever made or asked for (SpecBoot)
MaxEntries == 3            \* entries of the sessions directory at startup (SpecBoot)
MaxCreateSockets == 3      \* session sockets ever made or asked for (SpecCreate)
MaxNotifySockets == 2      \* session sockets ever made or asked for (SpecNotify)
MaxNotified == 3           \* webhook events ever dispatched (SpecNotify)

MaxMsgs == 2               \* messages one messages.upsert event carries
MaxForwarded == 3          \* webhook events ever dispatched (SpecInbound, SpecMedia)
MaxUpserts == 2            \* messages.upsert handlers suspended at once (SpecInbound, SpecMedia)
MaxAliasUpserts == 1        \* messages.upsert handlers suspended at once (SpecAlias)
MaxAliasForwarded == 2      \* webhook events ever dispatched (SpecAlias)
MaxHeaderLen == 2          \* tokens in an Authorization header (SpecAuth)
MaxHistory == 101          \* messages one messaging-history.set event carries (SpecHistory)
MaxSynced == 51            \* webhook events dispatched before a history event starts (SpecHistory)
MaxSyncs == 2              \* history handlers paused at once (SpecHistory)
MaxPairSockets == 2        \* session sockets ever made or asked for (SpecPair)
MaxCommandSockets == 2     \* session sockets ever made or asked for (SpecCommands)

NULL == 0

VARIABLES
  instances,            \* Map<string, Instance>: name -> index in objs, NULL = no entry
  objs,                 \* the Instance objects ever allocated (handlers capture them)
  sockets,              \* the session sockets ever made by makeWASocket
  reconnectAttempts,    \* Map<string, number>: name -> count, -1 = no entry
  keepAliveIntervals,   \* Map<string, Timeout>: name -> captured object, NULL = no entry
  intervals,            \* keep-alive setInterval timers that are running (bag)
  lastActivity,         \* Map<string, Date>: name -> has an entry
  lastMessageReceived,  \* Map<string, Date>: name -> has an entry
  zombieCheckInterval,  \* the sweep timer is running
  sessionDirs,          \* names whose credential directory exists on disk
  timers,               \* pending setTimeout(() => this.connect(name), delay) (bag)
  connectCalls,         \* connect() invocations suspended at their awaits (bag)
  logoutCalls,          \* objects of the logout() invocations suspended at socket.logout()
  phase,                \* "running" | "shuttingDown" | "exited"
  webhookUrl,           \* the configured endpoint, NULL = none
  deliveries,           \* sendWebhook invocations, one record per logical event
  now,                  \* Date.now(), in minutes since the service started
  connectedAt,          \* the Date in instance.lastConnected, per object of objs
  receivedAt,           \* the Date in lastMessageReceived, per name
  lastPing,             \* the last presence update of a keep-alive callback
  lastOp,               \* the last command or inbound event that was handled
  upserts,              \* messages.upsert handlers suspended in a media download
  request,              \* the last HTTP request the API key middleware has seen
  syncs,                \* messaging-history.set handlers suspended in their pause
  lastSync,             \* the input of the last step of a history handler
  boot,                 \* startServer: loading the persisted sessions, or listening
  closures,             \* history: transient closures of a name since its last open
  deleted               \* history: name was deleted and not created again

timeVars == <<now, connectedAt, receivedAt>>
syncVars == <<syncs, lastSync>>
opVars == <<lastOp, upserts, request, syncVars, boot>>
connVars == <<instances, objs, sockets, reconnectAttempts, keepAliveIntervals,
              intervals, lastActivity, lastMessageReceived, zombieCheckInterval,
              sessionDirs, timers, connectCalls, logoutCalls, phase, closures,
              deleted, timeVars, lastPing, opVars>>
hookVars == <<webhookUrl, deliveries>>
vars == <<connVars, hookVars>>

\* ----------------------------------------------------------------- helpers
Min(x, y) == IF x <= y THEN x ELSE y

RECURSIVE Pow2(_)
Pow2(n) == IF n = 0 THEN 1 ELSE 2 * Pow2(n - 1)

One(x) == SetToBag({x})

BagSize(b) == BagCardinality(b)

\* The Instance literal of createInstance.
NewInstance ==
  [status |-> "disconnected", socket |-> NULL, qrCode |-> FALSE,
   phoneNumber |-> FALSE, profileName |-> FALSE, lastConnected |-> FALSE]

\* A socket as makeWASocket returns it: connecting, nothing emitted yet.
NewSocket(n, o) == [name |-> n, obj |-> o, st |-> "connecting", rendering |-> FALSE]

Live(s) == sockets[s].st \in {"connecting", "open"}

Running == phase # "exited"

\* lastOp before anything was handled.  kind names the command or the event;
\* sock is the socket a request was sent on (a command) or that emitted the
\* event; ok tells that the command returned a result or the download
\* succeeded; chat tells that the batch of an upsert event holds a message
\* that is not a status broadcast.
NoOp == [kind |-> "", name |-> "", sock |-> NULL, ok |-> FALSE, chat |-> FALSE,
         msgs |-> <<>>]

\* request before any request has arrived.  path is req.path; authorization
\* and xApiKey are the values of the two headers, apiKey is process.env.API_KEY
\* (line 11), all as sequences of tokens, <<>> for a header or variable that
\* is not set; answer is what the middleware did.
NoRequest ==
  [path |-> "", authorization |-> <<>>, xApiKey |-> <<>>, apiKey |-> <<>>,
   answer |-> ""]

\* lastSync before any history sync.  A history event of socket sock carries
\* the messages 1..n, those in status being status broadcasts; from is the
\* number of messages the handler had gone through before the step.
NoSync == [sock |-> NULL, n |-> 0, status |-> {}, from |-> 0]

\* startServer has loaded an empty sessions directory and listens.  todo: the
\* directory entries loadExistingSessions has still to visit; waiting: the
\* Instance object whose createInstance it awaits; found: the session
\* directories among the entries it has read; visited: the entries its loop
\* has visited; failed: its catch has run.
Listening ==
  [st |-> "listening", todo |-> <<>>, waiting |-> NULL, found |-> {},
   visited |-> 0, failed |-> FALSE]

Init ==
  /\ instances = [n \in Names |-> NULL]
  /\ objs = <<>>
  /\ sockets = <<>>
  /\ reconnectAttempts = [n \in Names |-> -1]
  /\ keepAliveIntervals = [n \in Names |-> NULL]
  /\ intervals = EmptyBag
  /\ lastActivity = [n \in Names |-> FALSE]
  /\ lastMessageReceived = [n \in Names |-> FALSE]
  /\ zombieCheckInterval = TRUE
  /\ sessionDirs = {}
  /\ timers = EmptyBag
  /\ connectCalls = EmptyBag
  /\ logoutCalls = {}
  /\ phase = "running"
  /\ webhookUrl = NULL
  /\ deliveries = <<>>
  /\ now = 0
  /\ connectedAt = <<>>
  /\ receivedAt = [n \in Names |-> 0]
  /\ lastPing = [sock |-> NULL, ok |-> FALSE]
  /\ lastOp = NoOp
  /\ upserts = <<>>
  /\ request = NoRequest
  /\ syncs = <<>>
  /\ lastSync = NoSync
  /\ boot = Listening
  /\ closures = [n \in Names |-> 0]
  /\ deleted = [n \in Names |-> FALSE]

\* Mutant of SendEnter: the endpoint is not looked at.
SendEnterUnchecked(d, retryCount) ==
  [d EXCEPT !.st = "posting", !.retryCount = retryCount, !.posts = @ + 1]

\* Lines 905-925: sendWebhook(event, data, retryCount) up to the await of
\* fetch.  Without an endpoint it returns, else it issues one POST.
SendEnter(d, retryCount) ==
  IF webhookUrl = NULL
  THEN [d EXCEPT !.st = "skipped", !.retryCount = retryCount]
  ELSE [d EXCEPT !.st = "posting", !.retryCount = retryCount, !.posts = @ + 1]

\* An event before its first sendWebhook call.  event, state and reason are
\* its name and payload; fails, elapsed, delays and waited record what
\* happened to it; batch names the handler invocation that produced it
\* together with other events (0: an event on its own); media tells that
\* mediaBase64 and mediaMimetype are populated, history that isHistorySync
\* is set, msg the position of a history message in its event.
NewDelivery ==
  [st |-> "new", retryCount |-> 0, posts |-> 0, fails |-> 0, waitLeft |-> 0,
   elapsed |-> 0, delays |-> <<>>, waited |-> <<>>, batch |-> 0,
   event |-> "", state |-> "", reason |-> "", media |-> FALSE, history |-> FALSE,
   msg |-> 0]

\* this.sendWebhook(event, {state, reason}) in a connection handler, not
\* awaited: the deliveries after the call has run up to its fetch.  Without
\* an endpoint the call returns at line 907 and leaves nothing behind.
Emit(event, state, reason) ==
  IF webhookUrl = NULL THEN deliveries
  ELSE Append(deliveries,
              SendEnter([NewDelivery EXCEPT !.event = event, !.state = state,
                                            !.reason = reason], 0))


\* Mutant of ConnectDirs: the directory is made before the lookup.
ConnectDirsEager(n) == sessionDirs \cup {n}

\* connect(name), lines 156-164: the credential directories after the lookup
\* of the instance ('Instance not found' is thrown before the mkdir).
ConnectDirs(n) == IF instances[n] # NULL THEN sessionDirs \cup {n} ELSE sessionDirs

\* connect(name), lines 156-166: look the instance up, make its credential
\* directory, and suspend at the first await.  The call captures the Instance
\* object, not the name.
ConnectEnter(n) ==
  /\ instances[n] # NULL
  /\ sessionDirs' = ConnectDirs(n)
  /\ connectCalls' = connectCalls (+) One([name |-> n, obj |-> instances[n]])

\* Mutant of CallsAfterCreate: connect is called for a registered name too.
CallsAfterCreateAlways(n) ==
  connectCalls (+) One([name |-> n,
                        obj |-> IF instances[n] # NULL THEN instances[n]
                                ELSE Len(objs) + 1])

\* Lines 139-151: the connect calls after createInstance(name): none is added
\* for a registered name (the return of line 140), one for the new record
\* otherwise.
CallsAfterCreate(n) ==
  IF instances[n] # NULL
  THEN connectCalls
  ELSE connectCalls (+) One([name |-> n, obj |-> Len(objs) + 1])

\* createInstance(name) for a registered name, lines 139-141: the existing
\* record is returned.
CreateExisting(n) ==
  /\ Running
  /\ instances[n] # NULL
  /\ connectCalls' = CallsAfterCreate(n)
  /\ lastOp' = [kind |-> "createInstance", name |-> n, sock |-> NULL,
                ok |-> TRUE, chat |-> FALSE, msgs |-> <<>>]
  /\ UNCHANGED <<instances, objs, sockets, reconnectAttempts,
                 keepAliveIntervals, intervals, lastActivity,
                 lastMessageReceived, zombieCheckInterval, sessionDirs, timers,
                 logoutCalls, phase, closures, deleted, hookVars, timeVars,
                 lastPing, upserts, request, syncVars, boot>>

\* What readdirSync(sessionsPath) can return: session directories, the
\* system directory lost+found, and an entry that is not a directory.
Entries == Names \cup {"lost+found", "file"}

\* Lines 64-71: the entry is neither lost+found nor hidden, and it is a
\* directory.
IsSession(entry) == entry \in Names

\* The lists of distinct entries of up to MaxEntries entries.
BootLists ==
  {l \in UNION {[1..k -> Entries] : k \in 0..MaxEntries} :
     \A i, j \in DOMAIN l : i # j => l[i] # l[j]}

\* The process has been started with the directory entries of a list of
\* BootLists on disk: the constructor has run, loadExistingSessions has read
\* the directory (line 62), the sweep is not started yet.
InitBoot ==
  /\ instances = [n \in Names |-> NULL]
  /\ objs = <<>>
  /\ sockets = <<>>
  /\ reconnectAttempts = [n \in Names |-> -1]
  /\ keepAliveIntervals = [n \in Names |-> NULL]
  /\ intervals = EmptyBag
  /\ lastActivity = [n \in Names |-> FALSE]
  /\ lastMessageReceived = [n \in Names |-> FALSE]
  /\ zombieCheckInterval = FALSE
  /\ \E l \in BootLists :
       /\ sessionDirs = {l[i] : i \in DOMAIN l} \cap Names
       /\ boot = [st |-> "loading", todo |-> l, waiting |-> NULL,
                  found |-> {l[i] : i \in DOMAIN l} \cap Names,
                  visited |-> 0, failed |-> FALSE]
  /\ timers = EmptyBag
  /\ connectCalls = EmptyBag
  /\ logoutCalls = {}
  /\ phase = "running"
  /\ webhookUrl = NULL
  /\ deliveries = <<>>
  /\ now = 0
  /\ connectedAt = <<>>
  /\ receivedAt = [n \in Names |-> 0]
  /\ lastPing = [sock |-> NULL, ok |-> FALSE]
  /\ lastOp = NoOp
  /\ upserts = <<>>
  /\ request = NoRequest
  /\ syncs = <<>>
  /\ lastSync = NoSync
  /\ closures = [n \in Names |-> 0]
  /\ deleted = [n \in Names |-> FALSE]

\* loadExistingSessions, lines 63-71: the loop skips an entry that is a
\* system directory or not a directory.
LoadSkip ==
  /\ Running
  /\ boot.st = "loading" /\ boot.waiting = NULL
  /\ boot.todo # <<>>
  /\ ~IsSession(Head(boot.todo))
  /\ boot' = [boot EXCEPT !.todo = Tail(@), !.visited = @ + 1]
  /\ UNCHANGED <<instances, objs, sockets, reconnectAttempts,
                 keepAliveIntervals, intervals, lastActivity,
                 lastMessageReceived, zombieCheckInterval, sessionDirs, timers,
                 connectCalls, logoutCalls, phase, closures, deleted, hookVars,
                 timeVars, lastPing, lastOp, upserts, request, syncVars>>

\* loadExistingSessions, lines 70-74: await this.createInstance(sessionName)
\* for a session directory, up to the first await of its connect (lines
\* 143-151 and 156-166).
LoadSession ==
  LET n == Head(boot.todo) IN
  /\ Running
  /\ boot.st = "loading" /\ boot.waiting = NULL
  /\ boot.todo # <<>>
  /\ IsSession(n)
  /\ instances[n] = NULL
  /\ objs' = Append(objs, NewInstance)
  /\ connectedAt' = Append(connectedAt, 0)
  /\ instances' = [instances EXCEPT ![n] = Len(objs) + 1]
  /\ sessionDirs' = sessionDirs \cup {n}
  /\ connectCalls' = CallsAfterCreate(n)
  /\ deleted' = [deleted EXCEPT ![n] = FALSE]
  /\ boot' = [boot EXCEPT !.todo = Tail(@), !.visited = @ + 1,
                          !.waiting = Len(objs) + 1]
  /\ UNCHANGED <<sockets, reconnectAttempts, keepAliveIntervals, intervals,
                 lastActivity, lastMessageReceived, zombieCheckInterval, timers,
                 logoutCalls, phase, closures, hookVars,
                 now, receivedAt, lastPing, lastOp, upserts, request, syncVars>>

\* The connect that loadExistingSessions awaits through createInstance has
\* ended.  If it returned (the record has its socket) the loop goes on; if it
\* was rejected, the rejection leaves the loop and the catch of lines 79-81
\* logs it: loadExistingSessions returns without visiting the other entries
\* and without line 77, and startServer goes on to app.listen (part_001,
\* lines 124-127).
LoadResume ==
  LET o == boot.waiting IN
  /\ Running
  /\ boot.st = "loading" /\ o # NULL
  /\ \A c \in BagToSet(connectCalls) : c.obj # o
  /\ boot' = IF objs[o].socket # NULL
             THEN [boot EXCEPT !.waiting = NULL]
             ELSE [boot EXCEPT !.waiting = NULL, !.failed = TRUE,
                               !.st = "listening"]
  /\ UNCHANGED <<instances, objs, sockets, reconnectAttempts,
                 keepAliveIntervals, intervals, lastActivity,
                 lastMessageReceived, zombieCheckInterval, sessionDirs, timers,
                 connectCalls, logoutCalls, phase, closures, deleted, hookVars,
                 timeVars, lastPing, lastOp, upserts, request, syncVars>>

\* loadExistingSessions after its loop, line 77: startZombieChecker(); then
\* startServer calls app.listen (part_001, line 127).
LoadDone ==
  /\ Running
  /\ boot.st = "loading" /\ boot.waiting = NULL
  /\ boot.todo = <<>>
  /\ zombieCheckInterval' = TRUE
  /\ boot' = [boot EXCEPT !.st = "listening"]
  /\ UNCHANGED <<instances, objs, sockets, reconnectAttempts,
                 keepAliveIntervals, intervals, lastActivity,
                 lastMessageReceived, sessionDirs, timers,
                 connectCalls, logoutCalls, phase, closures, deleted, hookVars,
                 timeVars, lastPing, lastOp, upserts, request, syncVars>>

\* createInstance(name), lines 138-153, up to the first await of connect.
\* For a name that is registered it returns the existing record and changes
\* nothing (lines 139-141).
CreateInstance(n) ==
  /\ Running
  /\ instances[n] = NULL
  /\ objs' = Append(objs, NewInstance)
  /\ connectedAt' = Append(connectedAt, 0)
  /\ instances' = [instances EXCEPT ![n] = Len(objs) + 1]
  /\ sessionDirs' = sessionDirs \cup {n}
  /\ connectCalls' = CallsAfterCreate(n)
  /\ deleted' = [deleted EXCEPT ![n] = FALSE]
  /\ UNCHANGED <<sockets, reconnectAttempts, keepAliveIntervals, intervals,
                 lastActivity, lastMessageReceived, zombieCheckInterval, timers,
                 logoutCalls, phase, closures, hookVars,
                 now, receivedAt, lastPing, opVars>>

\* connect(name), lines 169-189 and the handler registrations: the rest of
\* connect after its awaits.  The previous socket is neither ended nor
\* unsubscribed.
ConnectResume(c) ==
  /\ Running
  /\ BagIn(c, connectCalls)
  /\ connectCalls' = connectCalls (-) One(c)
  /\ sockets' = Append(sockets, NewSocket(c.name, c.obj))
  /\ objs' = [objs EXCEPT ![c.obj].status = "connecting",
                          ![c.obj].socket = Len(sockets) + 1]
  /\ UNCHANGED <<instances, reconnectAttempts, keepAliveIntervals, intervals,
                 lastActivity, lastMessageReceived, zombieCheckInterval,
                 sessionDirs, timers, logoutCalls, phase, closures, deleted,
                 hookVars, timeVars, lastPing, opVars>>

\* connect(name), lines 162-167: the call c ends in a rejection before line
\* 169 (the credentials cannot be loaded, or the protocol version cannot be
\* fetched).  Nothing was written yet.
ConnectFail(c) ==
  /\ Running
  /\ BagIn(c, connectCalls)
  /\ connectCalls' = connectCalls (-) One(c)
  /\ UNCHANGED <<instances, objs, sockets, reconnectAttempts,
                 keepAliveIntervals, intervals, lastActivity,
                 lastMessageReceived, zombieCheckInterval, sessionDirs, timers,
                 logoutCalls, phase, closures, deleted, hookVars, timeVars,
                 lastPing, opVars>>

\* An update of the Instance object o.
SetObj(o, status, qr, phone, profile, lastConn) ==
  [objs EXCEPT ![o].status = status, ![o].qrCode = qr, ![o].phoneNumber = phone,
               ![o].profileName = profile, ![o].lastConnected = lastConn]

\* connection.update with a qr, line 192 up to the await of line 194: the
\* handler suspends while QRCode.toDataURL renders.
QrEvent(s) ==
  /\ Running
  /\ sockets[s].st = "connecting"
  /\ sockets' = [sockets EXCEPT ![s].rendering = TRUE]
  /\ UNCHANGED <<instances, objs, reconnectAttempts, keepAliveIntervals,
                 intervals, lastActivity, lastMessageReceived,
                 zombieCheckInterval, sessionDirs, timers, connectCalls,
                 logoutCalls, phase, closures, deleted,
                 hookVars, timeVars, lastPing, opVars>>

\* Lines 194-202: the rendering is done, the handler resumes.
QrRendered(s) ==
  /\ Running
  /\ sockets[s].rendering
  /\ sockets' = [sockets EXCEPT ![s].rendering = FALSE]
  /\ objs' = [objs EXCEPT ![sockets[s].obj].qrCode = TRUE,
                          ![sockets[s].obj].status = "qr_code"]
  /\ deliveries' = Emit("qrcode.updated", "", "")
  /\ UNCHANGED <<instances, reconnectAttempts, keepAliveIntervals, intervals,
                 lastActivity, lastMessageReceived, zombieCheckInterval,
                 sessionDirs, timers, connectCalls, logoutCalls, phase,
                 closures, deleted, webhookUrl, timeVars, lastPing, opVars>>

BaseReconnectDelay == 3000
MaxReconnectDelay == 60000

\* Line 223: this.reconnectAttempts.get(name) || 0
Attempts(n) == IF reconnectAttempts[n] = -1 THEN 0 ELSE reconnectAttempts[n]

\* Mutant of ReconnectDelay: the ceiling is forgotten.
ReconnectDelayNoCap(attempts) == BaseReconnectDelay * Pow2(attempts)

\* Line 224: Math.min(3000 * Math.pow(2, attempts), 60000)
ReconnectDelay(attempts) ==
  Min(BaseReconnectDelay * Pow2(attempts), MaxReconnectDelay)

\* Mutant of AttemptsAfterClose: the increment is forgotten.
AttemptsAfterCloseStuck(attempts) == attempts

\* Line 225: the counter's value after a transient closure.
AttemptsAfterClose(attempts) == attempts + 1

\* Line 243: the counter's value after a connection-opened event.
AttemptsAfterOpen == 0

\* Mutant of IntervalsCleared: the previous keep-alive timer keeps running.
IntervalsKept(n) == intervals

\* Lines 248-251: the running keep-alive timers after clearInterval of the
\* entry keepAliveIntervals has for name n.
IntervalsCleared(n) ==
  IF keepAliveIntervals[n] # NULL
  THEN intervals (-) One([name |-> n, obj |-> keepAliveIntervals[n]])
  ELSE intervals

\* Mutant of PhoneAfterOpen: the user id of the socket is not looked at.
PhoneKeptAfterOpen(o, user) == objs[o].phoneNumber

\* Lines 267-270: instance.phoneNumber after an open; it is written only if
\* the socket exposes a user id.
PhoneAfterOpen(o, user) == IF user THEN TRUE ELSE objs[o].phoneNumber

\* connection.update with connection == 'open', lines 237-284.  user: the
\* socket exposes a user id (socket.user?.id).
OpenEvent(s, user) ==
  LET n == sockets[s].name
      o == sockets[s].obj
  IN
  /\ Running
  /\ sockets[s].st = "connecting"
  /\ sockets' = [sockets EXCEPT ![s].st = "open"]
  /\ objs' = SetObj(o, "connected", FALSE, PhoneAfterOpen(o, user), user, TRUE)
  /\ reconnectAttempts' = [reconnectAttempts EXCEPT ![n] = AttemptsAfterOpen]
  /\ intervals' = IntervalsCleared(n) (+) One([name |-> n, obj |-> o])
  /\ keepAliveIntervals' = [keepAliveIntervals EXCEPT ![n] = o]
  /\ lastActivity' = [lastActivity EXCEPT ![n] = TRUE]
  /\ connectedAt' = [connectedAt EXCEPT ![o] = now]
  /\ deliveries' = Emit("connection.update", "open", "")
  /\ closures' = [closures EXCEPT ![n] = 0]
  /\ UNCHANGED <<instances, lastMessageReceived, zombieCheckInterval,
                 sessionDirs, timers, connectCalls, logoutCalls, phase,
                 deleted, webhookUrl, now, receivedAt, lastPing, opVars>>

\* The closures a socket in state st can report: a socket that was ended
\* reports a closure that is not a logout, one that was logged out reports
\* DisconnectReason.loggedOut, a live one may report either.
CanClose(st, reason) ==
  \/ st \in {"connecting", "open"}
  \/ st = "ending" /\ reason = "transient"
  \/ st = "loggingOut" /\ reason = "loggedOut"

\* Mutant of DirsAfterLoggedOut: the session directory is left on disk.
DirsKeptAfterLoggedOut(n) == sessionDirs

\* Lines 217-219: the credential directories after a closure with the reason
\* loggedOut.
DirsAfterLoggedOut(n) == sessionDirs \ {n}

\* connection.update with connection == 'close', lines 204-235.
CloseEvent(s, reason) ==
  LET n == sockets[s].name
      o == sockets[s].obj
      attempts == Attempts(n)
  IN
  /\ Running
  /\ CanClose(sockets[s].st, reason)
  /\ sockets' = [sockets EXCEPT ![s].st = "dead"]
  /\ IF reason = "loggedOut"
     THEN /\ objs' = SetObj(o, "disconnected", FALSE, FALSE, FALSE,
                            objs[o].lastConnected)
          /\ sessionDirs' = DirsAfterLoggedOut(n)
          /\ UNCHANGED <<reconnectAttempts, timers, closures>>
     ELSE /\ objs' = [objs EXCEPT ![o].status = "connecting"]
          /\ reconnectAttempts' =
               [reconnectAttempts EXCEPT ![n] = AttemptsAfterClose(attempts)]
          /\ timers' = timers (+) One([name |-> n,
                                       delay |-> ReconnectDelay(attempts),
                                       nth |-> closures[n]])
          /\ closures' = [closures EXCEPT ![n] = @ + 1]
          /\ UNCHANGED sessionDirs
  /\ deliveries' = Emit("connection.update", "close", reason)
  /\ UNCHANGED <<instances, keepAliveIntervals, intervals, lastActivity,
                 lastMessageReceived, zombieCheckInterval, connectCalls,
                 logoutCalls, phase, deleted, webhookUrl, timeVars, lastPing, opVars>>

\* Mutant of CallsAfterTimer: the callback does not call connect.
CallsWithoutTimer(t) == connectCalls

\* Line 227 with lines 156-166: the connect calls after the callback of the
\* reconnect timer t has called this.connect(name).
CallsAfterTimer(t) ==
  IF instances[t.name] # NULL
  THEN connectCalls (+) One([name |-> t.name, obj |-> instances[t.name]])
  ELSE connectCalls

\* The callback of line 227 runs: connect(name) up to its first await, or
\* its rejection ('Instance not found', line 157) that nobody handles.
TimerFire(t) ==
  /\ Running
  /\ BagIn(t, timers)
  /\ timers' = timers (-) One(t)
  /\ sessionDirs' = ConnectDirs(t.name)
  /\ connectCalls' = CallsAfterTimer(t)
  /\ UNCHANGED <<instances, objs, sockets, reconnectAttempts,
                 keepAliveIntervals, intervals, lastActivity,
                 lastMessageReceived, zombieCheckInterval, logoutCalls, phase,
                 closures, deleted,
                 hookVars, timeVars, lastPing, opVars>>

\* POST /:name/reconnect: 404 unless the name is registered, else connect(name).
Reconnect(n) ==
  /\ Running
  /\ ConnectEnter(n)
  /\ UNCHANGED <<instances, objs, sockets, reconnectAttempts,
                 keepAliveIntervals, intervals, lastActivity,
                 lastMessageReceived, zombieCheckInterval, timers, logoutCalls,
                 phase, closures, deleted,
                 hookVars, timeVars, lastPing, opVars>>

\* socket.end(undefined) on the sockets in S: a live socket starts closing,
\* a socket that is already closed stays as it is.
EndSockets(S) ==
  [s \in DOMAIN sockets |->
     IF s \in S /\ Live(s) THEN [sockets[s] EXCEPT !.st = "ending"] ELSE sockets[s]]

\* The session directory after deleteInstance, lines 713-716.
DirsAfterDelete(n) == sessionDirs \ {n}

\* deleteInstance(name), lines 699-718, behind DELETE /:name (404 unless the
\* name is registered).
DeleteInstance(n) ==
  /\ Running
  /\ instances[n] # NULL
  /\ sockets' = EndSockets({objs[instances[n]].socket})
  /\ instances' = [instances EXCEPT ![n] = NULL]
  /\ sessionDirs' = DirsAfterDelete(n)
  /\ deleted' = [deleted EXCEPT ![n] = TRUE]
  /\ UNCHANGED <<objs, reconnectAttempts, keepAliveIntervals, intervals,
                 lastActivity, lastMessageReceived, zombieCheckInterval, timers,
                 connectCalls, logoutCalls, phase, closures, hookVars,
                 timeVars, lastPing, opVars>>

\* Mutant of LoggedOutObj: every instance is reset.
LoggedOutEveryObj(o) ==
  [i \in DOMAIN objs |->
     [objs[i] EXCEPT !.status = "disconnected", !.qrCode = FALSE,
                     !.phoneNumber = FALSE, !.profileName = FALSE]]

\* Lines 733-736 of logout.
LoggedOutObj(o) == SetObj(o, "disconnected", FALSE, FALSE, FALSE, objs[o].lastConnected)

\* logout(name), lines 720-731, behind POST /:name/logout (404 unless the
\* name is registered).  Without a socket it runs to its end; with one it
\* calls socket.logout() and suspends.  (A rejected socket.logout() is
\* rethrown and changes nothing.)
LogoutCall(n) ==
  LET o == instances[n] IN
  /\ Running
  /\ o # NULL
  /\ IF objs[o].socket = NULL
     THEN /\ objs' = LoggedOutObj(o)
          /\ UNCHANGED <<sockets, logoutCalls>>
     ELSE /\ sockets' = [sockets EXCEPT ![objs[o].socket].st =
                           IF Live(objs[o].socket) THEN "loggingOut" ELSE @]
          /\ logoutCalls' = logoutCalls \cup {o}
          /\ UNCHANGED objs
  /\ UNCHANGED <<instances, reconnectAttempts, keepAliveIntervals, intervals,
                 lastActivity, lastMessageReceived, zombieCheckInterval,
                 sessionDirs, timers, connectCalls, phase, closures, deleted,
                 hookVars, timeVars, lastPing, opVars>>

\* logout(name) after socket.logout() has resolved, lines 733-736.
LogoutResume(o) ==
  /\ Running
  /\ o \in logoutCalls
  /\ logoutCalls' = logoutCalls \ {o}
  /\ objs' = LoggedOutObj(o)
  /\ UNCHANGED <<instances, sockets, reconnectAttempts, keepAliveIntervals,
                 intervals, lastActivity, lastMessageReceived,
                 zombieCheckInterval, sessionDirs, timers, connectCalls, phase,
                 closures, deleted,
                 hookVars, timeVars, lastPing, opVars>>

\* Mutant of ObjsAfterReject: the catch swallows the error and the writes of
\* lines 733-736 run.
ObjsAfterRejectReset(o) == LoggedOutObj(o)

\* Lines 727-730: the catch logs and rethrows, so lines 733-736 do not run.
ObjsAfterReject(o) == objs

\* logout(name) after socket.logout() has rejected, lines 727-730: the error
\* is rethrown to the caller (the route answers 500).  The socket was not
\* logged out; the closure it reports afterwards is not a logout.
LogoutReject(o) ==
  LET s == objs[o].socket IN
  /\ Running
  /\ o \in logoutCalls
  /\ logoutCalls' = logoutCalls \ {o}
  /\ objs' = ObjsAfterReject(o)
  /\ sockets' = [sockets EXCEPT ![s].st =
                   IF @ = "loggingOut" THEN "ending" ELSE @]
  /\ lastOp' = [kind |-> "logout", name |-> sockets[s].name, sock |-> s,
                ok |-> FALSE, chat |-> FALSE, msgs |-> <<>>]
  /\ UNCHANGED <<instances, reconnectAttempts, keepAliveIntervals,
                 intervals, lastActivity, lastMessageReceived,
                 zombieCheckInterval, sessionDirs, timers, connectCalls, phase,
                 closures, deleted,
                 hookVars, timeVars, lastPing, upserts, request, syncVars, boot>>

\* What a batch of a messages.upsert event can hold: a text message, a message
\* with image, audio, video, document or sticker content, a status broadcast.
\* A message to an alias address ('@lid') whose socket has no alias resolver
\* (the test of line 379 fails) takes the steps of a text or media message.
MsgKinds == {"text", "media", "status"}
\* Messages to an alias address ('@lid', line 363) on a socket with an alias
\* resolver, without and with media.
AliasKinds == {"lid", "lidmedia"}
UpsertTypes == {"notify", "append", "prepend"}
Batches == UNION {[1..k -> MsgKinds] : k \in 1..MaxMsgs}
\* Batches of text messages, status broadcasts and messages to alias
\* addresses.
AliasBatches ==
  UNION {[1..k -> {"text", "status"} \cup AliasKinds] : k \in 1..MaxMsgs}

\* this.sendWebhook('messages.upsert', {..., mediaBase64, mediaMimetype}),
\* lines 393 and 413, not awaited.
Forward(dels, media) ==
  IF webhookUrl = NULL THEN dels
  ELSE Append(dels,
              SendEnter([NewDelivery EXCEPT !.event = "messages.upsert",
                                            !.media = media], 0))

\* Mutant of AfterDownload: a failed download drops the message.
AfterDownloadAborting(dels, ok) == IF ok THEN Forward(dels, TRUE) ELSE dels

\* Lines 326-331 (and 333-359) after the await: downloadMediaAsBase64 returns
\* null when the download fails (its catch, lines 865-868), the fields are
\* set only if (media), and the message is forwarded in both cases.
AfterDownload(dels, ok) == Forward(dels, ok)

\* Mutant of AfterAlias: the alias branch does not skip the dispatch that
\* follows it.
AfterAliasTwice(dels, media) == Forward(Forward(dels, media), media)

\* Lines 392-409 after the await of the alias resolver (line 380, whose
\* failure is caught at 386): one dispatch with the media fields of the
\* download, then continue, which skips the dispatch of line 413.
AfterAlias(dels, media) == Forward(dels, media)

\* The loop of lines 307-429 over msgs up to its next await: a status
\* broadcast is skipped (309), a message without media is forwarded, a
\* message with media suspends the handler in its download (stage
\* "download"), a message to an alias address without media suspends it in
\* the alias resolver (stage "alias").  active: the loop has run
\* lastActivity.set (316).  cur: the message the handler is suspended in.
RECURSIVE UpsertRun(_, _, _)
UpsertRun(msgs, dels, active) ==
  IF msgs = <<>>
  THEN [dels |-> dels, rest |-> <<>>, waiting |-> FALSE, active |-> active,
        cur |-> "", stage |-> ""]
  ELSE IF Head(msgs) = "status" THEN UpsertRun(Tail(msgs), dels, active)
  ELSE IF Head(msgs) \in {"media", "lidmedia"}
  THEN [dels |-> dels, rest |-> Tail(msgs), waiting |-> TRUE, active |-> TRUE,
        cur |-> Head(msgs), stage |-> "download"]
  ELSE IF Head(msgs) = "lid"
  THEN [dels |-> dels, rest |-> Tail(msgs), waiting |-> TRUE, active |-> TRUE,
        cur |-> "lid", stage |-> "alias"]
  ELSE UpsertRun(Tail(msgs), Forward(dels, FALSE), TRUE)

HasChat(msgs) == \E i \in DOMAIN msgs : msgs[i] # "status"

\* Lines 299-305: the handler returns for a type other than notify and
\* append, else it runs lastMessageReceived.set(name, new Date()).
ReceivedAfterUpsert(n, type) ==
  IF type \in {"notify", "append"}
  THEN [lastMessageReceived EXCEPT ![n] = TRUE]
  ELSE lastMessageReceived

\* The messages.upsert handler of socket s, lines 289-430, up to its first
\* await or its end.
UpsertEvent(s, type, msgs) ==
  LET n == sockets[s].name
      past == type \in {"notify", "append"}
      r == UpsertRun(msgs, deliveries, FALSE)
  IN
  /\ Running
  /\ sockets[s].st = "open"
  /\ lastOp' = [kind |-> "messages.upsert", name |-> n, sock |-> s,
                ok |-> past, chat |-> HasChat(msgs), msgs |-> msgs]
  /\ lastMessageReceived' = ReceivedAfterUpsert(n, type)
  /\ receivedAt' = IF past
                   THEN [receivedAt EXCEPT ![n] = now]
                   ELSE receivedAt
  /\ lastActivity' = IF past /\ r.active
                     THEN [lastActivity EXCEPT ![n] = TRUE]
                     ELSE lastActivity
  /\ deliveries' = IF past THEN r.dels ELSE deliveries
  /\ upserts' = IF past /\ r.waiting
                THEN Append(upserts, [sock |-> s, name |-> n, rest |-> r.rest,
                                      cur |-> r.cur, stage |-> r.stage,
                                      media |-> FALSE])
                ELSE upserts
  /\ UNCHANGED <<instances, objs, sockets, reconnectAttempts,
                 keepAliveIntervals, intervals, zombieCheckInterval,
                 sessionDirs, timers, connectCalls, logoutCalls, phase,
                 closures, deleted, webhookUrl,
                 now, connectedAt, lastPing, request, syncVars, boot>>

RemoveAt(seq, i) == SubSeq(seq, 1, i - 1) \o SubSeq(seq, i + 1, Len(seq))

\* The handler upserts[u] resumes after its await (ok: the download or the
\* alias resolver succeeded).  After the download of a message to an alias
\* address the handler enters the alias branch and waits in the resolver;
\* else the message is forwarded and the loop goes on to its next await or
\* its end.
UpsertResume(u, ok) ==
  LET h == upserts[u]
      again == h.stage = "download" /\ h.cur = "lidmedia"
      sent == IF h.stage = "download"
              THEN AfterDownload(deliveries, ok)
              ELSE AfterAlias(deliveries, h.media)
      r == IF again
           THEN [dels |-> deliveries, rest |-> h.rest, waiting |-> TRUE,
                 active |-> FALSE, cur |-> h.cur, stage |-> "alias"]
           ELSE UpsertRun(h.rest, sent, FALSE)
  IN
  /\ Running
  /\ u \in DOMAIN upserts
  /\ lastOp' = [kind |-> h.stage, name |-> h.name, sock |-> h.sock,
                ok |-> ok, chat |-> FALSE, msgs |-> <<>>]
  /\ deliveries' = r.dels
  /\ lastActivity' = IF r.active
                     THEN [lastActivity EXCEPT ![h.name] = TRUE]
                     ELSE lastActivity
  /\ upserts' = IF r.waiting
                THEN [upserts EXCEPT ![u].rest = r.rest, ![u].cur = r.cur,
                                     ![u].stage = r.stage,
                                     ![u].media = again /\ ok]
                ELSE RemoveAt(upserts, u)
  /\ UNCHANGED <<instances, objs, sockets, reconnectAttempts,
                 keepAliveIntervals, intervals, lastMessageReceived,
                 zombieCheckInterval, sessionDirs, timers, connectCalls,
                 logoutCalls, phase, closures, deleted, webhookUrl,
                 timeVars, lastPing, request, syncVars, boot>>

\* messages.upsert of type notify with one message: chat tells whether it is
\* a text message or a status broadcast.
MessagesUpsert(s, chat) ==
  UpsertEvent(s, "notify", IF chat THEN <<"text">> ELSE <<"status">>)

\* The presence.update handler of socket s, lines 479-489.
PresenceUpdate(s) ==
  /\ Running
  /\ sockets[s].st = "open"
  /\ deliveries' = Emit("presence.update", "", "")
  /\ UNCHANGED <<webhookUrl, connVars>>

batchSize == 50

\* Mutant of NeedsPause: the handler pauses after its last batch too.
NeedsPauseInclusive(from, n) == from + batchSize <= n

\* Line 470: if (i + batchSize < messages.length), the pause of 100 ms.
NeedsPause(from, n) == from + batchSize < n

\* Lines 454-468 for the batch that starts after message from: one
\* sendWebhook('messages.upsert', {..., isHistorySync: true}) per message
\* that is not a status broadcast, in the order of the batch, none awaited.
HistoryBatch(dels, from, n, status) ==
  LET last == Min(from + batchSize, n)
      kept == SelectSeq([j \in 1..(last - from) |-> from + j],
                        LAMBDA p : p \notin status)
  IN IF webhookUrl = NULL THEN dels
     ELSE dels \o
            [j \in 1..Len(kept) |->
               SendEnter([NewDelivery EXCEPT !.event = "messages.upsert",
                                             !.history = TRUE,
                                             !.msg = kept[j]], 0)]

\* The messaging-history.set handler of socket s, lines 448-476, for an event
\* with n messages up to its first pause or its end.
HistoryEvent(s, n, status) ==
  /\ Running
  /\ sockets[s].st = "open"
  /\ lastSync' = [sock |-> s, n |-> n, status |-> status, from |-> 0]
  /\ deliveries' = HistoryBatch(deliveries, 0, n, status)
  /\ syncs' = IF n > 0 /\ NeedsPause(0, n)
              THEN Append(syncs, [sock |-> s, n |-> n, status |-> status,
                                  from |-> batchSize])
              ELSE syncs
  /\ UNCHANGED <<instances, objs, sockets, reconnectAttempts,
                 keepAliveIntervals, intervals, lastActivity,
                 lastMessageReceived, zombieCheckInterval, sessionDirs, timers,
                 connectCalls, logoutCalls, phase, closures, deleted,
                 webhookUrl, timeVars, lastPing, lastOp, upserts, request, boot>>

\* The handler syncs[h] resumes after its pause with its next batch.
HistoryResume(h) ==
  LET x == syncs[h] IN
  /\ Running
  /\ h \in DOMAIN syncs
  /\ lastSync' = [sock |-> x.sock, n |-> x.n, status |-> x.status,
                  from |-> x.from]
  /\ deliveries' = HistoryBatch(deliveries, x.from, x.n, x.status)
  /\ syncs' = IF NeedsPause(x.from, x.n)
              THEN [syncs EXCEPT ![h].from = @ + batchSize]
              ELSE RemoveAt(syncs, h)
  /\ UNCHANGED <<instances, objs, sockets, reconnectAttempts,
                 keepAliveIntervals, intervals, lastActivity,
                 lastMessageReceived, zombieCheckInterval, sessionDirs, timers,
                 connectCalls, logoutCalls, phase, closures, deleted,
                 webhookUrl, timeVars, lastPing, lastOp, upserts, request, boot>>

\* messaging-history.set with k messages that fit one batch, none of them a
\* status broadcast.
HistorySet(s, k) == HistoryEvent(s, k, {})

\* The commands of the service that act on one instance.
Commands ==
  {"sendText", "sendMedia", "getProfilePicture", "fetchMessageHistory",
   "getGroups"}

\* The guards of the commands: sendText 497-498, sendMedia 517-518,
\* getProfilePicture 570-571, fetchMessageHistory 673-674 test the socket and
\* the status; getGroups 767-769 tests the socket alone.
Accepts(kind, n) ==
  /\ instances[n] # NULL
  /\ objs[instances[n]].socket # NULL
  /\ kind = "getGroups" \/ objs[instances[n]].status = "connected"

\* Command kind for name n.  A command that passes its guard sends its
\* request on instance.socket (sendMedia after it has fetched mediaUrl,
\* fetched: that worked); ok: the socket returned a result.  A command
\* writes no field of the service.
Command(kind, n, fetched, ok) ==
  LET sent == Accepts(kind, n) /\ (kind = "sendMedia" => fetched) IN
  /\ Running
  /\ lastOp' = [kind |-> kind, name |-> n,
                sock |-> IF sent THEN objs[instances[n]].socket ELSE NULL,
                ok |-> sent /\ ok, chat |-> FALSE, msgs |-> <<>>]
  /\ UNCHANGED <<instances, objs, sockets, reconnectAttempts,
                 keepAliveIntervals, intervals, lastActivity,
                 lastMessageReceived, zombieCheckInterval, sessionDirs, timers,
                 connectCalls, logoutCalls, phase, closures, deleted, hookVars,
                 timeVars, lastPing, upserts, request, syncVars, boot>>

ZOMBIE_CHECK_INTERVAL == 15    \* minutes
ZOMBIE_THRESHOLD == 60         \* minutes

\* Mutant of IsZombie: an instance that has gone quiet is reconnected too.
IsZombieOrQuiet(n, t) ==
  /\ objs[instances[n]].status = "connected"
  /\ \/ ~lastMessageReceived[n] /\ objs[instances[n]].lastConnected
           /\ t - connectedAt[instances[n]] > ZOMBIE_THRESHOLD
     \/ lastMessageReceived[n] /\ t - receivedAt[n] > ZOMBIE_THRESHOLD

\* Lines 102-112: the sweep at time t reconnects the registered instance n.
\* It is connected, its name has no lastMessageReceived entry, and its
\* lastConnected is more than the threshold ago.
IsZombie(n, t) ==
  /\ objs[instances[n]].status = "connected"
  /\ ~lastMessageReceived[n]
  /\ objs[instances[n]].lastConnected
  /\ t - connectedAt[instances[n]] > ZOMBIE_THRESHOLD

\* Lines 124-129: the sweep at time t only warns about the registered
\* instance n.
IsQuiet(n, t) ==
  /\ objs[instances[n]].status = "connected"
  /\ lastMessageReceived[n]
  /\ t - receivedAt[n] > ZOMBIE_THRESHOLD

\* The callback of the interval of line 100 runs, ZOMBIE_CHECK_INTERVAL after
\* its last run: for every registered instance that IsZombie, connect(name)
\* up to its first await.
ZombieSweep ==
  LET t == now + ZOMBIE_CHECK_INTERVAL
      Z == {n \in Names : instances[n] # NULL /\ IsZombie(n, t)}
  IN
  /\ Running
  /\ zombieCheckInterval
  /\ now' = t
  /\ sessionDirs' = sessionDirs \cup Z
  /\ connectCalls' =
       connectCalls (+) SetToBag({[name |-> n, obj |-> instances[n]] : n \in Z})
  /\ UNCHANGED <<instances, objs, sockets, reconnectAttempts,
                 keepAliveIntervals, intervals, lastActivity,
                 lastMessageReceived, zombieCheckInterval, timers, logoutCalls,
                 phase, closures, deleted, hookVars, connectedAt, receivedAt,
                 lastPing, opVars>>

\* Mutant of ShouldPing: the status is not looked at.
ShouldPingAnyStatus(o) == objs[o].socket # NULL

\* Line 255: instance.socket && instance.status === 'connected', on the
\* Instance object the callback has captured.
ShouldPing(o) == objs[o].socket # NULL /\ objs[o].status = "connected"

\* The callback of the keep-alive interval i runs, lines 254-263.  ok: the
\* presence update is sent; otherwise sendPresenceUpdate throws, which is
\* caught and logged.
KeepAliveTick(i, ok) ==
  /\ Running
  /\ BagIn(i, intervals)
  /\ lastPing' = IF ShouldPing(i.obj)
                 THEN [sock |-> objs[i.obj].socket, ok |-> ok]
                 ELSE lastPing
  /\ UNCHANGED <<instances, objs, sockets, reconnectAttempts,
                 keepAliveIntervals, intervals, lastActivity,
                 lastMessageReceived, zombieCheckInterval, sessionDirs, timers,
                 connectCalls, logoutCalls, phase, closures, deleted, hookVars,
                 timeVars, opVars>>

RECURSIVE ClearAll(_, _)
\* clearInterval for every entry of keepAliveIntervals among the names S.
ClearAll(S, b) ==
  IF S = {} THEN b
  ELSE LET n == CHOOSE x \in S : TRUE IN
       ClearAll(S \ {n},
                IF keepAliveIntervals[n] # NULL
                THEN b (-) One([name |-> n, obj |-> keepAliveIntervals[n]])
                ELSE b)

\* disconnectAll(), lines 871-899, up to the await of line 900.
DisconnectAll ==
  /\ phase = "running"
  /\ zombieCheckInterval' = FALSE
  /\ intervals' = ClearAll(Names, intervals)
  /\ keepAliveIntervals' = [n \in Names |-> NULL]
  /\ sockets' = EndSockets({objs[instances[n]].socket :
                              n \in {m \in Names : instances[m] # NULL}})
  /\ phase' = "shuttingDown"
  /\ UNCHANGED <<instances, objs, reconnectAttempts, lastActivity,
                 lastMessageReceived, sessionDirs, timers, connectCalls,
                 logoutCalls, closures, deleted,
                 hookVars, timeVars, lastPing, opVars>>

\* gracefulShutdown after disconnectAll has returned: process.exit(0).
Exit ==
  /\ phase = "shuttingDown"
  /\ phase' = "exited"
  /\ UNCHANGED <<instances, objs, sockets, reconnectAttempts,
                 keepAliveIntervals, intervals, lastActivity,
                 lastMessageReceived, zombieCheckInterval, sessionDirs, timers,
                 connectCalls, logoutCalls, closures, deleted,
                 hookVars, timeVars, lastPing, opVars>>

\* ----------------------------------------------------- API key middleware
\* Header values are sequences of tokens: "Bearer " is the 7 characters of
\* the scheme prefix, "k" and "x" are pieces of key material.
Tokens == {"Bearer ", "k", "x"}
KeyTokens == {"k", "x"}
SeqsUpTo(S, k) == UNION {[1..j -> S] : j \in 0..k}

\* String.prototype.replace(tok, ''): h without the first occurrence of tok.
RECURSIVE RemoveFirst(_, _)
RemoveFirst(h, tok) ==
  IF h = <<>> THEN <<>>
  ELSE IF Head(h) = tok THEN Tail(h)
  ELSE <<Head(h)>> \o RemoveFirst(Tail(h), tok)

\* Line 42: authHeader?.replace('Bearer ', '') || xApiKey; an empty string is
\* falsy.
PresentedKey(authorization, xApiKey) ==
  IF RemoveFirst(authorization, "Bearer ") # <<>>
  THEN RemoveFirst(authorization, "Bearer ")
  ELSE xApiKey

\* authMiddleware, part_001 lines 33-57: "next" passes the request to the
\* routes, "401" answers it.
AuthMiddleware(path, authorization, xApiKey, apiKey) ==
  IF path = "/health" THEN "next"
  ELSE IF apiKey = <<>> THEN "next"
  ELSE IF PresentedKey(authorization, xApiKey) = <<>>
          \/ PresentedKey(authorization, xApiKey) # apiKey
  THEN "401"
  ELSE "next"

Paths == {"/health", "/webhook/set", "/webhook"}

\* A request goes through app.use(authMiddleware) (line 59) and, when it is
\* passed on, through its route: POST /webhook/set with url u sets the
\* endpoint (routes/webhook.ts line 8), GET /health and GET /webhook change
\* nothing.
Request(path, authorization, xApiKey, apiKey, u) ==
  LET answer == AuthMiddleware(path, authorization, xApiKey, apiKey) IN
  /\ Running
  /\ request' = [path |-> path, authorization |-> authorization,
                 xApiKey |-> xApiKey, apiKey |-> apiKey, answer |-> answer]
  /\ webhookUrl' = IF answer = "next" /\ path = "/webhook/set"
                   THEN u ELSE webhookUrl
  /\ UNCHANGED <<instances, objs, sockets, reconnectAttempts,
                 keepAliveIntervals, intervals, lastActivity,
                 lastMessageReceived, zombieCheckInterval, sessionDirs, timers,
                 connectCalls, logoutCalls, phase, closures, deleted,
                 deliveries, timeVars, lastPing, lastOp, upserts, syncVars, boot>>

\* ------------------------------------------------------- webhook dispatcher
Urls == {1, 2}             \* endpoints POST /webhook/set is called with

maxRetries == 3
baseDelay == 1000

\* The time one Tick lets pass.
Step == baseDelay

Max(x, y) == IF x >= y THEN x ELSE y

\* setWebhookUrl(url), lines 739-742, behind POST /webhook/set, which refuses
\* an empty or malformed url.
SetWebhookUrl(u) ==
  /\ webhookUrl' = u
  /\ UNCHANGED <<deliveries, connVars>>

\* A handler calls this.sendWebhook(event, data) for a new event.
Dispatch ==
  /\ deliveries' = Append(deliveries, SendEnter(NewDelivery, 0))
  /\ UNCHANGED <<webhookUrl, connVars>>

\* Mutant of ShouldRetry: the bound is off by one.
ShouldRetryOffByOne(retryCount) == retryCount <= maxRetries

\* Line 937: retryCount < maxRetries
ShouldRetry(retryCount) == retryCount < maxRetries

\* Mutant of WebhookDelay: the backoff grows linearly.
WebhookDelayLinear(retryCount) == baseDelay * (retryCount + 1)

\* Line 938: baseDelay * Math.pow(2, retryCount)
WebhookDelay(retryCount) == baseDelay * Pow2(retryCount)

\* Mutant of Exhausted: the event is queued for another round.
ExhaustedRequeued(d) ==
  [d EXCEPT !.st = "waiting", !.fails = @ + 1, !.waitLeft = 0, !.elapsed = 0,
            !.retryCount = 0]

\* Lines 942-944: the last attempt has failed; the failure is logged and the
\* call returns.
Exhausted(d) == [d EXCEPT !.st = "failed", !.fails = @ + 1]

\* Lines 927-945: the fetch of delivery i settles.  ok: a response with a
\* success status; otherwise an error status or a transport error, which both
\* end in the catch block.
Respond(i, ok) ==
  LET d == deliveries[i] IN
  /\ d.st = "posting"
  /\ deliveries' =
       [deliveries EXCEPT ![i] =
          IF ok THEN [d EXCEPT !.st = "ok"]
          ELSE IF ShouldRetry(d.retryCount)
               THEN [d EXCEPT !.st = "waiting", !.fails = @ + 1,
                              !.waitLeft = WebhookDelay(d.retryCount),
                              !.elapsed = 0,
                              !.delays = Append(@, WebhookDelay(d.retryCount))]
               ELSE Exhausted(d)]
  /\ UNCHANGED <<webhookUrl, connVars>>

\* Time passes while some delivery waits at line 940.  elapsed is the part
\* of its wait a delivery has sat out.
Tick ==
  /\ \E i \in DOMAIN deliveries :
       deliveries[i].st = "waiting" /\ deliveries[i].waitLeft > 0
  /\ deliveries' =
       [i \in DOMAIN deliveries |->
          IF deliveries[i].st = "waiting" /\ deliveries[i].waitLeft > 0
          THEN [deliveries[i] EXCEPT !.waitLeft = Max(0, @ - Step),
                                     !.elapsed = @ + Min(Step, deliveries[i].waitLeft)]
          ELSE deliveries[i]]
  /\ UNCHANGED <<webhookUrl, connVars>>

\* Mutant of TimeoutDone: the retry does not wait for its timeout.
TimeoutDoneAtOnce(d) == TRUE

\* Line 940: the promise of the timeout has resolved.
TimeoutDone(d) == d.waitLeft = 0

\* Lines 940-941: the timeout of delivery i has run out, sendWebhook calls
\* itself with retryCount + 1.
RetryFire(i) ==
  LET d == deliveries[i] IN
  /\ d.st = "waiting"
  /\ TimeoutDone(d)
  /\ deliveries' =
       [deliveries EXCEPT ![i] =
          SendEnter([d EXCEPT !.waited = Append(@, d.elapsed)], d.retryCount + 1)]
  /\ UNCHANGED <<webhookUrl, connVars>>

\* The messages.update handler of socket s, lines 434-445, for an event that
\* carries k status updates: one sendWebhook call per update, none of them
\* awaited, so every call has run up to its fetch when the handler returns.
MessagesUpdate(s, k) ==
  LET first == Len(deliveries) + 1 IN
  /\ Running
  /\ sockets[s].st = "open"
  /\ deliveries' =
       deliveries \o [j \in 1..k |->
                        SendEnter([NewDelivery EXCEPT !.batch = first,
                                                      !.event = "messages.update"],
                                  0)]
  /\ UNCHANGED <<webhookUrl, connVars>>

NextWebhook ==
  \/ \E u \in Urls : SetWebhookUrl(u)
  \/ Len(deliveries) < MaxEvents /\ Dispatch
  \/ \E i \in DOMAIN deliveries, ok \in BOOLEAN : Respond(i, ok)
  \/ Tick
  \/ \E i \in DOMAIN deliveries : RetryFire(i)

SpecWebhook == Init /\ [][NextWebhook]_vars

\* The dispatcher when every request settles (fetch resolves or rejects),
\* time passes while a delivery waits, and a timeout that has run out calls
\* its callback: what the event loop does for a pending promise and a timer.
SpecDeliver ==
  /\ Init
  /\ [][NextWebhook]_vars
  /\ WF_vars(Tick)
  /\ \A i \in 1..MaxEvents :
       /\ WF_vars(\E ok \in BOOLEAN : i \in DOMAIN deliveries /\ Respond(i, ok))
       /\ WF_vars(i \in DOMAIN deliveries /\ RetryFire(i))

\* ---------------------------------------------------------- specifications
SockIds == DOMAIN sockets
Reasons == {"transient", "loggedOut"}

\* Sockets made, and connect calls that will make one.
Asked == Len(sockets) + BagSize(connectCalls)

\* The connection state machine of one instance name, its routes and timers.
\* A pairing code is rendered before the socket issues the next one.
Next ==
  \/ Len(objs) < MaxObjs /\ Asked < MaxSockets /\ CreateInstance("a")
  \/ \E c \in BagToSet(connectCalls) : ConnectResume(c)
  \/ \E s \in SockIds : ~sockets[s].rendering /\ QrEvent(s)
  \/ \E s \in SockIds : QrRendered(s)
  \/ \E s \in SockIds : OpenEvent(s, TRUE)
  \/ \E s \in SockIds, reason \in Reasons : CloseEvent(s, reason)
  \/ \E t \in BagToSet(timers) :
       (Asked < MaxSockets \/ instances[t.name] = NULL) /\ TimerFire(t)
  \/ Asked < MaxSockets /\ Reconnect("a")
  \/ DeleteInstance("a")
  \/ LogoutCall("a")
  \/ \E o \in logoutCalls : LogoutResume(o)

Spec == Init /\ [][Next]_vars

\* One outage of one instance: closures, the reconnects they schedule, opens.
NextBackoff ==
  \/ Len(objs) < 1 /\ CreateInstance("a")
  \/ \E c \in BagToSet(connectCalls) : ConnectResume(c)
  \/ \E s \in SockIds : OpenEvent(s, TRUE)
  \/ \E s \in SockIds : CloseEvent(s, "transient")
  \/ \E t \in BagToSet(timers) : Asked < MaxBackoffSockets /\ TimerFire(t)
  \/ Asked < MaxBackoffSockets /\ BagSize(connectCalls) = 0 /\ Reconnect("a")

SpecBackoff == Init /\ [][NextBackoff]_vars

\* The zombie sweep over one instance that connects, receives messages, loses
\* its connection and reconnects.
NextZombie ==
  \/ Len(objs) < 1 /\ CreateInstance("a")
  \/ \E c \in BagToSet(connectCalls) :
       Len(sockets) < MaxZombieSockets /\ ConnectResume(c)
  \/ \E s \in SockIds : OpenEvent(s, TRUE)
  \/ \E s \in SockIds : CloseEvent(s, "transient")
  \/ \E t \in BagToSet(timers) : TimerFire(t)
  \/ \E s \in SockIds, chat \in BOOLEAN : MessagesUpsert(s, chat)
  \/ now < MaxNow /\ ZombieSweep

SpecZombie == Init /\ [][NextZombie]_vars

\* The keep-alive timers of one instance name over reconnects, deletion and
\* re-creation, and the shutdown of the service.
NextKeepAlive ==
  \/ Len(objs) < MaxObjs /\ Asked < MaxAliveSockets /\ CreateInstance("a")
  \/ \E c \in BagToSet(connectCalls) : ConnectResume(c)
  \/ \E s \in SockIds : OpenEvent(s, TRUE)
  \/ \E s \in SockIds, reason \in Reasons : CloseEvent(s, reason)
  \/ \E t \in BagToSet(timers) :
       (Asked < MaxAliveSockets \/ instances[t.name] = NULL) /\ TimerFire(t)
  \/ Asked < MaxAliveSockets /\ Reconnect("a")
  \/ DeleteInstance("a")
  \/ \E i \in BagToSet(intervals), ok \in BOOLEAN : KeepAliveTick(i, ok)
  \/ DisconnectAll
  \/ Exit

SpecKeepAlive == Init /\ [][NextKeepAlive]_vars

\* One instance that pairs, connects, is logged out by the caller or by the
\* network, and loses its connection.
NextLogout ==
  \/ Len(objs) < 1 /\ CreateInstance("a")
  \/ \E c \in BagToSet(connectCalls) : ConnectResume(c)
  \/ \E s \in SockIds : ~sockets[s].rendering /\ QrEvent(s)
  \/ \E s \in SockIds : QrRendered(s)
  \/ \E s \in SockIds, user \in BOOLEAN : OpenEvent(s, user)
  \/ \E s \in SockIds, reason \in Reasons : CloseEvent(s, reason)
  \/ \E t \in BagToSet(timers) : Asked < MaxLogoutSockets /\ TimerFire(t)
  \/ Asked < MaxLogoutSockets /\ Reconnect("a")
  \/ LogoutCall("a")
  \/ \E o \in logoutCalls : LogoutResume(o)

SpecLogout == Init /\ [][NextLogout]_vars

\* The start of the process: the persisted sessions are loaded one after the
\* other while the sockets of the loaded ones report events; requests are
\* served once the server listens.
NextBoot ==
  \/ LoadSkip
  \/ LoadSession
  \/ LoadResume
  \/ LoadDone
  \/ \E c \in BagToSet(connectCalls) : ConnectResume(c)
  \/ \E c \in BagToSet(connectCalls) : ConnectFail(c)
  \/ \E s \in SockIds : OpenEvent(s, TRUE)
  \/ \E s \in SockIds : CloseEvent(s, "transient")
  \/ \E t \in BagToSet(timers) : Asked < MaxBootSockets /\ TimerFire(t)
  \/ \E n \in Names :
       boot.st = "listening" /\ Asked < MaxBootSockets /\ Reconnect(n)

SpecBoot == InitBoot /\ [][NextBoot]_vars

\* Two names that are created, and created again while their connect is in
\* progress or later.
NextCreate ==
  \/ \E n \in Names : Len(objs) < MaxObjs /\ CreateInstance(n)
  \/ \E n \in Names : CreateExisting(n)
  \/ \E c \in BagToSet(connectCalls) : ConnectResume(c)
  \/ \E c \in BagToSet(connectCalls) : ConnectFail(c)
  \/ \E s \in SockIds : OpenEvent(s, TRUE)
  \/ \E s \in SockIds : CloseEvent(s, "transient")
  \/ \E t \in BagToSet(timers) : Asked < MaxCreateSockets /\ TimerFire(t)

SpecCreate == Init /\ [][NextCreate]_vars

\* One instance whose logout calls succeed or fail.
NextReject ==
  \/ Len(objs) < 1 /\ CreateInstance("a")
  \/ \E c \in BagToSet(connectCalls) : ConnectResume(c)
  \/ \E s \in SockIds : ~sockets[s].rendering /\ QrEvent(s)
  \/ \E s \in SockIds : QrRendered(s)
  \/ \E s \in SockIds, user \in BOOLEAN : OpenEvent(s, user)
  \/ \E s \in SockIds, reason \in Reasons : CloseEvent(s, reason)
  \/ \E t \in BagToSet(timers) : Asked < MaxRejectSockets /\ TimerFire(t)
  \/ LogoutCall("a")
  \/ \E o \in logoutCalls : LogoutResume(o)
  \/ \E o \in logoutCalls : LogoutReject(o)

SpecReject == Init /\ [][NextReject]_vars

\* One instance with an endpoint configured: every connection event of its
\* sockets is dispatched; connect calls may fail.
NextNotify ==
  \/ SetWebhookUrl(1)
  \/ Len(objs) < 1 /\ CreateInstance("a")
  \/ \E c \in BagToSet(connectCalls) : ConnectResume(c)
  \/ \E c \in BagToSet(connectCalls) : ConnectFail(c)
  \/ \E s \in SockIds :
       Len(deliveries) < MaxNotified /\ ~sockets[s].rendering /\ QrEvent(s)
  \/ \E s \in SockIds : QrRendered(s)
  \/ \E s \in SockIds, user \in BOOLEAN :
       Len(deliveries) < MaxNotified /\ OpenEvent(s, user)
  \/ \E s \in SockIds, reason \in Reasons :
       Len(deliveries) < MaxNotified /\ CloseEvent(s, reason)
  \/ \E t \in BagToSet(timers) : Asked < MaxNotifySockets /\ TimerFire(t)
  \/ Asked < MaxNotifySockets /\ Reconnect("a")

SpecNotify == Init /\ [][NextNotify]_vars

\* One instance with an open socket and its inbound traffic: message batches
\* with their media downloads, status updates, presence and history sync.
NextInbound ==
  \/ SetWebhookUrl(1)
  \/ Len(objs) < 1 /\ CreateInstance("a")
  \/ \E c \in BagToSet(connectCalls) : ConnectResume(c)
  \/ \E s \in SockIds : OpenEvent(s, TRUE)
  \/ \E s \in SockIds, type \in UpsertTypes, msgs \in Batches :
       /\ Len(deliveries) + Len(msgs) <= MaxForwarded
       /\ Len(upserts) < MaxUpserts
       /\ UpsertEvent(s, type, msgs)
  \/ \E u \in DOMAIN upserts, ok \in BOOLEAN : UpsertResume(u, ok)
  \/ \E s \in SockIds :
       Len(deliveries) < MaxForwarded /\ MessagesUpdate(s, 1)
  \/ \E s \in SockIds : Len(deliveries) < MaxForwarded /\ PresenceUpdate(s)
  \/ \E s \in SockIds, k \in 1..MaxBatch :
       Len(deliveries) + k <= MaxForwarded /\ HistorySet(s, k)

SpecInbound == Init /\ [][NextInbound]_vars

\* One instance with an open socket, an endpoint, and message batches with
\* their media downloads.
NextMedia ==
  \/ SetWebhookUrl(1)
  \/ Len(objs) < 1 /\ CreateInstance("a")
  \/ \E c \in BagToSet(connectCalls) : ConnectResume(c)
  \/ \E s \in SockIds : OpenEvent(s, TRUE)
  \/ \E s \in SockIds, type \in UpsertTypes, msgs \in Batches :
       /\ webhookUrl # NULL
       /\ Len(deliveries) + Len(msgs) <= MaxForwarded
       /\ Len(upserts) < MaxUpserts
       /\ UpsertEvent(s, type, msgs)
  \/ \E u \in DOMAIN upserts, ok \in BOOLEAN : UpsertResume(u, ok)

SpecMedia == Init /\ [][NextMedia]_vars

\* One instance with an open socket, an endpoint, and message batches that
\* also hold messages to alias addresses.
NextAlias ==
  \/ SetWebhookUrl(1)
  \/ Len(objs) < 1 /\ CreateInstance("a")
  \/ \E c \in BagToSet(connectCalls) : ConnectResume(c)
  \/ \E s \in SockIds : OpenEvent(s, TRUE)
  \/ \E s \in SockIds, type \in UpsertTypes, msgs \in AliasBatches :
       /\ webhookUrl # NULL
       /\ Len(deliveries) + Len(msgs) <= MaxAliasForwarded
       /\ Len(upserts) < MaxAliasUpserts
       /\ UpsertEvent(s, type, msgs)
  \/ \E u \in DOMAIN upserts, ok \in BOOLEAN : UpsertResume(u, ok)

SpecAlias == Init /\ [][NextAlias]_vars

\* Two instances side by side: every socket opens and closes, the commands
\* (reconnect, logout, delete) are for "a", pairing codes arrive for "b".
NextPair ==
  \/ \E n \in Names : Len(objs) < MaxObjs /\ Asked < MaxPairSockets /\ CreateInstance(n)
  \/ \E c \in BagToSet(connectCalls) : ConnectResume(c)
  \/ \E s \in SockIds :
       sockets[s].name = "b" /\ ~sockets[s].rendering /\ QrEvent(s)
  \/ \E s \in SockIds : QrRendered(s)
  \/ \E s \in SockIds : OpenEvent(s, TRUE)
  \/ \E s \in SockIds, reason \in Reasons : CloseEvent(s, reason)
  \/ \E t \in BagToSet(timers) :
       (Asked < MaxPairSockets \/ instances[t.name] = NULL) /\ TimerFire(t)
  \/ Asked < MaxPairSockets /\ Reconnect("a")
  \/ DeleteInstance("a")
  \/ LogoutCall("a")
  \/ \E o \in logoutCalls : LogoutResume(o)

SpecPair == Init /\ [][NextPair]_vars

\* Requests with every combination of path, headers and configured key.
ApiKeys == {<<>>, <<"k">>}

NextAuth ==
  \E path \in Paths, authorization \in SeqsUpTo(Tokens, MaxHeaderLen),
     xApiKey \in SeqsUpTo(KeyTokens, 1), apiKey \in ApiKeys, u \in Urls :
    Request(path, authorization, xApiKey, apiKey, u)

SpecAuth == Init /\ [][NextAuth]_vars

\* The sizes of history events around the batch size, and where their
\* status broadcasts stand.
HistorySizes == {0, 1, batchSize, batchSize + 1, MaxHistory}
StatusPlaces == SUBSET {1, batchSize, batchSize + 1}

\* One instance with an open socket, an endpoint, and history syncs.
NextHistory ==
  \/ SetWebhookUrl(1)
  \/ Len(objs) < 1 /\ CreateInstance("a")
  \/ \E c \in BagToSet(connectCalls) : ConnectResume(c)
  \/ \E s \in SockIds : OpenEvent(s, TRUE)
  \/ \E s \in SockIds, n \in HistorySizes, status \in StatusPlaces :
       /\ webhookUrl # NULL
       /\ Len(deliveries) <= MaxSynced
       /\ Len(syncs) < MaxSyncs
       /\ HistoryEvent(s, n, status)
  \/ \E h \in DOMAIN syncs : HistoryResume(h)

SpecHistory == Init /\ [][NextHistory]_vars

\* The commands of the callers against instances in every status.
NextCommands ==
  \/ Len(objs) < 1 /\ CreateInstance("a")
  \/ \E c \in BagToSet(connectCalls) : ConnectResume(c)
  \/ \E s \in SockIds : ~sockets[s].rendering /\ QrEvent(s)
  \/ \E s \in SockIds : QrRendered(s)
  \/ \E s \in SockIds : OpenEvent(s, TRUE)
  \/ \E s \in SockIds : CloseEvent(s, "transient")
  \/ \E t \in BagToSet(timers) : Asked < MaxCommandSockets /\ TimerFire(t)
  \/ \E kind \in Commands, n \in Names, fetched, ok \in BOOLEAN :
       Command(kind, n, fetched, ok)

SpecCommands == Init /\ [][NextCommands]_vars

\* One connected instance whose socket reports message status updates, and
\* the deliveries of the webhook events they produce.
NextEvents ==
  \/ SetWebhookUrl(1)
  \/ Len(objs) < 1 /\ CreateInstance("a")
  \/ \E c \in BagToSet(connectCalls) : ConnectResume(c)
  \/ \E s \in SockIds : OpenEvent(s, TRUE)
  \/ \E s \in SockIds, k \in 1..MaxBatch :
       Len(deliveries) + k <= MaxEvents /\ MessagesUpdate(s, k)
  \/ \E i \in DOMAIN deliveries, ok \in BOOLEAN : Respond(i, ok)
  \/ Tick
  \/ \E i \in DOMAIN deliveries : RetryFire(i)

SpecEvents == Init /\ [][NextEvents]_vars

\* ------------------------------------------------------------------ claims
Registered == {n \in Names : instances[n] # NULL}
Inst(n) == objs[instances[n]]
SocketsOf(n) == {s \in SockIds : sockets[s].name = n}
LiveSocketsOf(n) == {s \in SocketsOf(n) : Live(s)}
TimersOf(n) == {t \in BagToSet(timers) : t.name = n}

RECURSIVE Copies(_, _)
\* How many elements of the bag b are in the set S.
Copies(S, b) ==
  IF S = {} THEN 0
  ELSE LET x == CHOOSE y \in S : TRUE IN CopiesIn(x, b) + Copies(S \ {x}, b)

PendingReconnects(n) == Copies(TimersOf(n), timers)

\* C1: for every registered instance, status connected implies a non-null
\* live socket and status disconnected implies a null socket handle.
C1_StatusAgreesWithSocket ==
  \A n \in Registered :
    /\ Inst(n).status = "connected" =>
         Inst(n).socket # NULL /\ Live(Inst(n).socket)
    /\ Inst(n).status = "disconnected" => Inst(n).socket = NULL

\* C2: at most one reconnect timer is pending per instance name.
C2_OneReconnectTimer == \A n \in Names : PendingReconnects(n) <= 1

\* C3: the pairing code of a registered instance is non-null only while its
\* status is qr_code.
C3_QrOnlyInQrState ==
  \A n \in Registered : Inst(n).qrCode => Inst(n).status = "qr_code"

\* C4: no two live session sockets exist for the same instance name.
C4_OneLiveSocket == \A n \in Names : Cardinality(LiveSocketsOf(n)) <= 1

\* C5: while a name is deleted and not created again, no keep-alive timer,
\* pending reconnect timer, reconnect counter entry, lastActivity entry or
\* lastMessageReceived entry is keyed by it.
C5_DeleteLeavesNothing ==
  \A n \in Names :
    deleted[n] =>
      /\ keepAliveIntervals[n] = NULL
      /\ \A i \in BagToSet(intervals) : i.name # n
      /\ PendingReconnects(n) = 0
      /\ reconnectAttempts[n] = -1
      /\ ~lastActivity[n]
      /\ ~lastMessageReceived[n]

\* C6: while a name is deleted and not created again, a lookup of it finds
\* nothing and its credential directory does not exist.
C6_DeletedStaysGone ==
  \A n \in Names : deleted[n] => instances[n] = NULL /\ n \notin sessionDirs

\* C6 witness: "a" is deleted, a connect call that was suspended across the
\* delete has since made a socket for the deleted object, that socket has
\* closed and the reconnect timers of the name have all fired.
C6_Witness ==
  /\ deleted["a"]
  /\ reconnectAttempts["a"] >= 1
  /\ timers = EmptyBag
  /\ connectCalls = EmptyBag
  /\ \E s \in SockIds :
       /\ objs[sockets[s].obj].socket = s
       /\ sockets[s].st = "dead"
       /\ \E r \in SockIds : r < s /\ sockets[r].st = "ending"

\* The delay the claim gives for the closure of index n.
ClaimedDelay(n) ==
  CASE n = 0 -> 3000
    [] n = 1 -> 6000
    [] n = 2 -> 12000
    [] n = 3 -> 24000
    [] n = 4 -> 48000
    [] OTHER -> 60000

OpenedNow(n) ==
  \E s \in SockIds :
    sockets[s].name = n /\ sockets[s].st = "connecting" /\ sockets'[s].st = "open"

\* A socket of name n reports a transient closure in this step.
ClosedNow(n) == closures'[n] = closures[n] + 1

\* C8: the reconnect counter of a name goes up by exactly 1 on every transient
\* closure, changes in no other way than by a connection-opened event, which
\* sets it to 0, and the first transient closure after an open schedules
\* 3000 ms, as the first closure of a fresh name does.
C8_CounterSteps ==
  [][\A n \in Names :
       LET before == IF reconnectAttempts[n] = -1 THEN 0 ELSE reconnectAttempts[n]
           after == IF reconnectAttempts'[n] = -1 THEN 0 ELSE reconnectAttempts'[n]
       IN
       /\ ClosedNow(n) => after = before + 1
       /\ OpenedNow(n) => reconnectAttempts'[n] = 0
       /\ reconnectAttempts'[n] # reconnectAttempts[n] => ClosedNow(n) \/ OpenedNow(n)
       /\ after < before => OpenedNow(n)
       /\ (ClosedNow(n) /\ closures[n] = 0) =>
            /\ before = 0
            /\ timers' = timers (+) One([name |-> n, delay |-> 3000, nth |-> 0])
    ]_vars

\* C8 witness: two sockets of "a" have closed, the open between the two
\* closures has reset the counter, and the second closure waits 3000 ms.
C8_Witness ==
  /\ reconnectAttempts["a"] = 1
  /\ Inst("a").lastConnected
  /\ Cardinality({s \in SockIds : sockets[s].st = "dead"}) = 2
  /\ \E s \in SockIds : sockets[s].st = "open"
  /\ timers = One([name |-> "a", delay |-> 3000, nth |-> 0])

\* The POSTs of a delivery: one per attempt made so far.
Posted(d) == d.st \in {"posting", "waiting", "ok", "failed"}

\* C9: an event with an endpoint configured gets at most 4 POSTs; the
\* delivery stops at the first success (3 failures then a success: 4 POSTs
\* and a success), and 4 failures end in the terminal failure after exactly
\* 4 POSTs.
C9_AtMostFourPosts ==
  \A i \in DOMAIN deliveries :
    LET d == deliveries[i] IN
    Posted(d) =>
      /\ d.posts \in 1..4
      /\ d.st = "posting" => d.posts = d.fails + 1
      /\ d.st = "waiting" => d.posts = d.fails /\ d.fails <= 3
      /\ d.st = "ok" => d.posts = d.fails + 1
      /\ d.st = "failed" => d.posts = 4 /\ d.fails = 4

\* C9 witness: one event was delivered by its 4th POST after 3 failures and
\* another one ended in the terminal failure after 4 POSTs.
C9_Witness ==
  \E i, j \in DOMAIN deliveries :
    /\ deliveries[i].st = "ok" /\ deliveries[i].fails = 3 /\ deliveries[i].posts = 4
    /\ deliveries[j].st = "failed" /\ deliveries[j].posts = 4

\* The waits the claim gives, in order.
ClaimedWaits == <<1000, 2000, 4000>>

\* C10: the wait before the k-th retry of an event is 1000 * 2^(k-1) ms (1 s,
\* 2 s, 4 s in that order) and no retry starts before its wait has elapsed.
C10_RetryWaits ==
  \A i \in DOMAIN deliveries :
    LET d == deliveries[i] IN
    /\ Len(d.delays) <= 3
    /\ \A k \in 1..Len(d.delays) : d.delays[k] = ClaimedWaits[k]
    /\ Posted(d) => Len(d.waited) = d.posts - 1
    /\ Len(d.waited) <= Len(d.delays)
    /\ \A k \in 1..Len(d.waited) : d.waited[k] >= ClaimedWaits[k]

\* C10 witness: an event has had its third retry, after waits of 1 s, 2 s
\* and 4 s.
C10_Witness ==
  \E i \in DOMAIN deliveries :
    /\ deliveries[i].posts = 4
    /\ deliveries[i].delays = <<1000, 2000, 4000>>
    /\ deliveries[i].waited = <<1000, 2000, 4000>>

\* The deliveries that start in this step.
Started == DOMAIN deliveries' \ DOMAIN deliveries

\* C11: without an endpoint configured, a sendWebhook call performs no POST,
\* schedules no retry, ends as a normal return and changes no instance state;
\* the event is not taken up again when an endpoint is configured later.
C11_NoUrlNoOp ==
  [][/\ (Started # {} /\ webhookUrl = NULL) =>
          /\ \A i \in Started :
               /\ deliveries'[i].st = "skipped"
               /\ deliveries'[i].posts = 0
               /\ deliveries'[i].fails = 0
               /\ deliveries'[i].delays = <<>>
          /\ connVars' = connVars
     /\ \A i \in DOMAIN deliveries :
          deliveries[i].st = "skipped" => deliveries'[i] = deliveries[i]
    ]_vars

\* C11 witness: an event of a connected instance was skipped for want of an
\* endpoint, and an endpoint has been configured since.
C11_Witness ==
  /\ webhookUrl # NULL
  /\ instances["a"] # NULL /\ Inst("a").status = "connected"
  /\ \E i \in DOMAIN deliveries :
       deliveries[i].st = "skipped" /\ deliveries[i].posts = 0

\* The fetch of some delivery settles in this step.
Settled ==
  \E i \in DOMAIN deliveries :
    deliveries[i].st = "posting" /\ deliveries'[i].st # "posting"

\* C12: a delivery always ends in a normal return (delivered, or dropped
\* after its 4th failed POST); a dropped event is never sent again; and
\* whatever a POST's outcome is, the instances' status, sockets and counters
\* stay as they were.
C12_FailureStaysInside ==
  [][/\ Settled => connVars' = connVars
     /\ \A i \in DOMAIN deliveries :
          /\ deliveries[i].st \in {"failed", "ok"} => deliveries'[i] = deliveries[i]
          /\ deliveries'[i].fails = maxRetries + 1 =>
               deliveries'[i].st = "failed" /\ deliveries'[i].posts = maxRetries + 1
    ]_vars

\* C12 witness: an event of a connected instance was dropped after 4 failed
\* POSTs and a later event was delivered.
C12_Witness ==
  /\ instances["a"] # NULL /\ Inst("a").status = "connected"
  /\ \E i, j \in DOMAIN deliveries :
       /\ i < j
       /\ deliveries[i].st = "failed" /\ deliveries[i].fails = 4
       /\ deliveries[j].st = "ok"

\* The POSTs of a delivery that are in flight: those made that have neither
\* failed nor succeeded.
InFlight(d) == d.posts - d.fails - (IF d.st = "ok" THEN 1 ELSE 0)

\* C13: at most one POST of an event is in flight at any time, and a retry
\* starts only when every earlier POST of the event has failed and the
\* backoff of the last failure has elapsed.
C13_SequentialRetries ==
  [][\A i \in DOMAIN deliveries :
       LET d == deliveries[i]
           e == deliveries'[i]
       IN
       /\ InFlight(e) \in {0, 1}
       /\ InFlight(e) = 1 <=> e.st = "posting"
       /\ e.posts > d.posts =>
            /\ e.posts = d.posts + 1
            /\ InFlight(d) = 0
            /\ d.st = "waiting"
            /\ d.fails = d.posts
            /\ d.elapsed >= d.delays[Len(d.delays)]
    ]_vars

\* C13 witness: the third retry of an event is in flight after three failed
\* POSTs.
C13_Witness ==
  \E i \in DOMAIN deliveries :
    /\ deliveries[i].st = "posting"
    /\ deliveries[i].posts = 4
    /\ deliveries[i].fails = 3

\* C14: within one handler invocation that produces several webhook events,
\* the first POST of an event is not issued before the delivery of the event
\* produced before it has finished.
C14_DispatchAwaited ==
  \A i, j \in DOMAIN deliveries :
    (/\ i < j
     /\ deliveries[i].batch # 0
     /\ deliveries[i].batch = deliveries[j].batch
     /\ deliveries[j].posts > 0) => deliveries[i].st \in {"ok", "failed"}

\* Socket s reports connection-opened or connection-closed in this step.
ConnectionEventNow(s) ==
  sockets'[s].st # sockets[s].st /\ sockets'[s].st \in {"open", "dead"}

\* C15: the events of one socket are handled in the order it emits them: no
\* later event of a socket changes instance state while the handler of an
\* earlier event of that socket is suspended.
C15_EventsInOrder ==
  [][\A s \in SockIds : sockets[s].rendering => ~ConnectionEventNow(s)]_vars

\* The connect calls of name n that are suspended in the bag b.
CallsOf(n, b) == Copies({c \in BagToSet(b) : c.name = n}, b)

\* The zombie sweep runs in this step.
SweepNow == now' # now

\* The registered instance n has received no message since its last open.
SilentSinceOpen(n) ==
  \/ ~lastMessageReceived[n]
  \/ receivedAt[n] < connectedAt[instances[n]]

\* C16: in every sweep, each connected instance that has received no inbound
\* message since its last open (messages of an earlier connection do not
\* count) and whose last open is more than 60 minutes ago gets exactly one
\* connect call.
C16_SweepReconnectsSilent ==
  [][SweepNow =>
       \A n \in Registered :
         (/\ Inst(n).status = "connected"
          /\ Inst(n).lastConnected
          /\ now' - connectedAt[instances[n]] > ZOMBIE_THRESHOLD
          /\ SilentSinceOpen(n)) =>
             CallsOf(n, connectCalls') = CallsOf(n, connectCalls) + 1
    ]_vars

\* C17: a sweep makes no connect call for a name that is not registered as
\* connected, or whose last message is within the threshold, or that has
\* received messages and has been quiet for longer than the threshold; and a
\* sweep changes no instance's status or socket, no counter and no timer.
C17_SweepSparesTheRest ==
  [][SweepNow =>
       /\ \A n \in Names :
            (\/ instances[n] = NULL
             \/ Inst(n).status # "connected"
             \/ lastMessageReceived[n] /\ now' - receivedAt[n] <= ZOMBIE_THRESHOLD
             \/ IsQuiet(n, now')) =>
                CallsOf(n, connectCalls') = CallsOf(n, connectCalls)
       /\ UNCHANGED <<instances, objs, sockets, reconnectAttempts, timers,
                      intervals, keepAliveIntervals, lastMessageReceived,
                      receivedAt, connectedAt>>
    ]_vars

\* C17 witness: "a" is connected, its last message is more than 60 minutes
\* old at the sweep that has just run, and no reconnect is under way.
C17_Witness ==
  /\ instances["a"] # NULL
  /\ Inst("a").status = "connected"
  /\ lastMessageReceived["a"]
  /\ now - receivedAt["a"] > ZOMBIE_THRESHOLD
  /\ connectCalls = EmptyBag
  /\ timers = EmptyBag

\* The keep-alive timers that run for name n.
KeepAlivesOf(n) == Copies({i \in BagToSet(intervals) : i.name = n}, intervals)

\* Every running keep-alive timer is the one keepAliveIntervals holds for its
\* name: a timer that was cancelled or replaced does not run.
NoCancelledTimerRuns ==
  \A i \in BagToSet(intervals) : keepAliveIntervals[i.name] = i.obj

\* C18: in every reachable state at most one keep-alive timer runs per
\* instance name, no cancelled timer runs, and exactly one runs for an
\* instance whose status is connected.
C18_OneKeepAlive ==
  /\ \A n \in Names : KeepAlivesOf(n) <= 1
  /\ NoCancelledTimerRuns
  /\ \A n \in Registered : Inst(n).status = "connected" => KeepAlivesOf(n) = 1

\* C18 as amended: at most one keep-alive timer runs per instance name and no
\* cancelled timer runs, in every reachable state; exactly one runs for an
\* instance whose status is connected as long as disconnectAll has not been
\* called.
C18_OneKeepAliveWhileRunning ==
  /\ \A n \in Names : KeepAlivesOf(n) <= 1
  /\ NoCancelledTimerRuns
  /\ phase = "running" =>
       \A n \in Registered : Inst(n).status = "connected" => KeepAlivesOf(n) = 1

\* C18 witness: two sockets of "a" are open at once, the second open has
\* replaced the keep-alive timer of the first, and one timer runs.
C18_Witness ==
  /\ phase = "running"
  /\ instances["a"] # NULL /\ Inst("a").status = "connected"
  /\ Cardinality({s \in SocketsOf("a") : sockets[s].st = "open"}) = 2
  /\ KeepAlivesOf("a") = 1

\* C19: a keep-alive tick sends the presence update only on the socket of an
\* instance whose status is connected, and whether the send succeeds or
\* fails the tick changes no status, socket, reconnect counter or timer and
\* starts no connect call.
C19_TickOnlyPings ==
  [][lastPing' # lastPing =>
       /\ \E i \in BagToSet(intervals) :
            /\ objs[i.obj].status = "connected"
            /\ objs[i.obj].socket # NULL
            /\ lastPing'.sock = objs[i.obj].socket
       /\ UNCHANGED <<instances, objs, sockets, reconnectAttempts, timers,
                      connectCalls, intervals, keepAliveIntervals, sessionDirs,
                      phase, timeVars, hookVars>>
    ]_vars

\* C19 witness: a ping of the connected instance "a" has failed and no
\* reconnect is pending or under way.
C19_Witness ==
  /\ lastPing.sock # NULL
  /\ ~lastPing.ok
  /\ instances["a"] # NULL
  /\ Inst("a").status = "connected"
  /\ lastPing.sock = Inst("a").socket
  /\ reconnectAttempts["a"] = 0
  /\ timers = EmptyBag
  /\ connectCalls = EmptyBag

\* Socket s reports a closure with the reason loggedOut in this step: it
\* closes and the closure is not counted as a transient one.
LoggedOutNow(s) ==
  /\ sockets[s].st # "dead"
  /\ sockets'[s].st = "dead"
  /\ closures' = closures

\* C20: a closure with the reason loggedOut sets the status of the socket's
\* instance to disconnected, clears qrCode, phoneNumber and profileName,
\* erases the session directory of the name, leaves the registry as it is,
\* schedules no reconnect and leaves the reconnect counter as it is.
C20_LoggedOutClose ==
  [][\A s \in SockIds :
       LoggedOutNow(s) =>
         LET o == sockets[s].obj IN
         /\ objs'[o].status = "disconnected"
         /\ ~objs'[o].qrCode
         /\ ~objs'[o].phoneNumber
         /\ ~objs'[o].profileName
         /\ sockets[s].name \notin sessionDirs'
         /\ instances' = instances
         /\ timers' = timers
         /\ connectCalls' = connectCalls
         /\ reconnectAttempts' = reconnectAttempts
    ]_vars

\* C20 witness: "a" was connected with its identity known, its socket has
\* closed with reason loggedOut: "a" is still registered, disconnected and
\* without identity, its directory is gone, and no reconnect is pending.
C20_Witness ==
  /\ Len(objs) = 1
  /\ instances["a"] = 1
  /\ objs[1].status = "disconnected"
  /\ objs[1].lastConnected
  /\ ~objs[1].phoneNumber /\ ~objs[1].profileName /\ ~objs[1].qrCode
  /\ sockets[objs[1].socket].st = "dead"
  /\ "a" \notin sessionDirs
  /\ reconnectAttempts["a"] = 0
  /\ timers = EmptyBag
  /\ connectCalls = EmptyBag
  /\ logoutCalls = {}

\* Socket s reports a closure that is not a logout in this step.
TransientNow(s) ==
  /\ sockets[s].st # "dead"
  /\ sockets'[s].st = "dead"
  /\ closures'[sockets[s].name] = closures[sockets[s].name] + 1

\* The delivery the step has added, if it has added exactly one.
Added == deliveries'[Len(deliveries')]

\* A reconnect timer fires in this step.
FiredNow(t) == BagIn(t, timers) /\ timers' = timers (-) One(t)

\* C21: a closure with a reason other than loggedOut sets status connecting,
\* schedules exactly one reconnect timer and dispatches connection.update
\* with state close and the reason; when a reconnect timer fires, connect is
\* called for the name (and suspends at its first await if the name is
\* registered).
C21_TransientClose ==
  [][/\ \A s \in SockIds :
          TransientNow(s) =>
            /\ objs'[sockets[s].obj].status = "connecting"
            /\ BagSize(timers') = BagSize(timers) + 1
            /\ PendingReconnects(sockets[s].name)' =
                 PendingReconnects(sockets[s].name) + 1
            /\ webhookUrl # NULL =>
                 /\ Len(deliveries') = Len(deliveries) + 1
                 /\ Added.event = "connection.update"
                 /\ Added.state = "close"
                 /\ Added.reason = "transient"
                 /\ Added.posts = 1
     /\ \A t \in BagToSet(timers) :
          (FiredNow(t) /\ instances[t.name] # NULL) =>
            connectCalls' =
              connectCalls (+) One([name |-> t.name, obj |-> instances[t.name]])
    ]_vars

\* C21 witness: with an endpoint configured, a socket of "a" has closed for
\* a transient reason, the close event was dispatched, the reconnect timer
\* has fired and the connect call it made is under way.
C21_Witness ==
  /\ closures["a"] = 1
  /\ Inst("a").status = "connecting"
  /\ timers = EmptyBag
  /\ connectCalls = One([name |-> "a", obj |-> instances["a"]])
  /\ \E i \in DOMAIN deliveries :
       deliveries[i].state = "close" /\ deliveries[i].reason = "transient"

\* Socket s reports connection-opened in this step.
OpenNow(s) == sockets[s].st = "connecting" /\ sockets'[s].st = "open"

\* C22: a connection-opened event leaves the socket's instance connected with
\* qrCode null, lastConnected stamped with the current time and the reconnect
\* counter of the name at 0; phoneNumber is populated if the socket exposes a
\* user; the keep-alive timer of the instance runs; and one connection.update
\* event with state open is dispatched.
C22_OpenHandler ==
  [][\A s \in SockIds :
       OpenNow(s) =>
         LET o == sockets[s].obj
             n == sockets[s].name
         IN
         /\ objs'[o].status = "connected"
         /\ ~objs'[o].qrCode
         /\ objs'[o].lastConnected /\ connectedAt'[o] = now
         /\ reconnectAttempts'[n] = 0
         /\ objs'[o].profileName => objs'[o].phoneNumber
         /\ BagIn([name |-> n, obj |-> o], intervals')
         /\ keepAliveIntervals'[n] = o
         /\ webhookUrl # NULL =>
              /\ Len(deliveries') = Len(deliveries) + 1
              /\ Added.event = "connection.update"
              /\ Added.state = "open"
              /\ Added.posts = 1
    ]_vars

\* C22 witness: a socket of "a" that exposes a user has opened with an
\* endpoint configured.
C22_Witness ==
  /\ "a" \in Registered
  /\ webhookUrl # NULL
  /\ Inst("a").status = "connected"
  /\ Inst("a").phoneNumber /\ Inst("a").profileName
  /\ reconnectAttempts["a"] = 0
  /\ KeepAlivesOf("a") = 1
  /\ \E i \in DOMAIN deliveries :
       deliveries[i].event = "connection.update" /\ deliveries[i].state = "open"

\* The handler of a pairing code of socket s resumes in this step.
RenderedNow(s) == sockets[s].rendering /\ ~sockets'[s].rendering

\* C23: when a pairing-code event is followed at once by a connection-opened
\* event of the same socket, the instance is connected with qrCode null once
\* both handlers have finished, also when the open is handled while the
\* pairing handler is suspended.
C23_QrThenOpen ==
  [][\A s \in SockIds :
       (/\ RenderedNow(s)
        /\ sockets[s].st = "open"
        /\ objs[sockets[s].obj].status = "connected") =>
          /\ objs'[sockets[s].obj].status = "connected"
          /\ ~objs'[sockets[s].obj].qrCode
    ]_vars

\* C24: a registered instance is never left in status connecting with no
\* reconnect timer pending, no connect call under way and no socket of its
\* own that can still emit an event.
C24_NeverStuckConnecting ==
  \A n \in Registered :
    Inst(n).status = "connecting" =>
      \/ PendingReconnects(n) > 0
      \/ CallsOf(n, connectCalls) > 0
      \/ \E s \in SockIds : sockets[s].obj = instances[n] /\ Live(s)

\* A command ran in this step.
CommandNow == lastOp' # lastOp /\ lastOp'.kind \in Commands

C26_ShutdownStopsAll ==
  [][/\ (phase = "shuttingDown" /\ phase' = "exited") =>
          /\ ~zombieCheckInterval
          /\ intervals = EmptyBag
          /\ timers = EmptyBag
          /\ \A n \in Registered :
               Inst(n).socket # NULL => sockets[Inst(n).socket].st # "open"
     /\ phase = "shuttingDown" => BagSize(timers') <= BagSize(timers)
    ]_vars

\* A messages.upsert handler resumes from a media download in this step.
ResumedNow == upserts' # upserts /\ Len(upserts') <= Len(upserts)

\* Index of the first message with media in msgs, Len(msgs) + 1 if none.
FirstMedia(msgs) ==
  IF \E i \in DOMAIN msgs : msgs[i] = "media"
  THEN CHOOSE i \in DOMAIN msgs :
         msgs[i] = "media" /\ \A j \in 1..(i - 1) : msgs[j] # "media"
  ELSE Len(msgs) + 1

\* C27: when the download of a message with media fails and an endpoint is
\* configured, one messages.upsert event is dispatched for that message with
\* the media fields unpopulated, and the rest of the batch is processed: one
\* event for every following message that is not a status broadcast, up to
\* the next message with media, in whose download the handler waits, or to
\* the end of the batch.
C27_FailedDownloadForwards ==
  [][(ResumedNow /\ ~lastOp'.ok /\ webhookUrl # NULL) =>
       \E u \in DOMAIN upserts :
         LET rest == upserts[u].rest
             k == FirstMedia(rest)
             texts == {i \in 1..(k - 1) : rest[i] = "text"}
             first == deliveries'[Len(deliveries) + 1]
         IN
         /\ Len(deliveries') = Len(deliveries) + 1 + Cardinality(texts)
         /\ first.event = "messages.upsert"
         /\ ~first.media
         /\ first.posts = 1
         /\ \A i \in (Len(deliveries) + 2)..Len(deliveries') :
              deliveries'[i].event = "messages.upsert"
         /\ IF k <= Len(rest)
            THEN /\ Len(upserts') = Len(upserts)
                 /\ upserts'[u].rest = SubSeq(rest, k + 1, Len(rest))
            ELSE Len(upserts') = Len(upserts) - 1
    ]_vars

\* C27 witness: a download has failed and its handler has ended, with two
\* messages.upsert events dispatched, none of them with media fields.
C27_Witness ==
  /\ lastOp.kind = "download" /\ ~lastOp.ok
  /\ upserts = <<>>
  /\ Len(deliveries) = 2
  /\ \A i \in 1..2 : deliveries[i].event = "messages.upsert" /\ ~deliveries[i].media

\* C29: lastMessageReceived of a name changes only in a step that handles a
\* messages.upsert event of type notify or append whose batch holds a chat
\* message; presence updates, status updates, history sync, status
\* broadcasts and batches of another type never change it.
C29_OnlyChatMessages ==
  [][\A n \in Names :
       (lastMessageReceived'[n] # lastMessageReceived[n]
          \/ receivedAt'[n] # receivedAt[n]) =>
         /\ lastOp'.kind = "messages.upsert"
         /\ lastOp'.name = n
         /\ lastOp'.ok
         /\ lastOp'.chat
    ]_vars

\* The connect call c returns in this step with the first socket of its
\* instance: the connect that createInstance awaits.
FirstConnected(c) ==
  /\ BagIn(c, connectCalls)
  /\ connectCalls' = connectCalls (-) One(c)
  /\ objs[c.obj].socket = NULL
  /\ Len(sockets') = Len(sockets) + 1

\* C28: createInstance of a new name registers an instance with status
\* disconnected; when its connect returns, the instance is registered with
\* status connecting and a socket; and the handler of a pairing code leaves
\* status qr_code and a qrCode.
C28_CreateDrivesToConnecting ==
  [][/\ Len(objs') = Len(objs) + 1 =>
          /\ objs'[Len(objs')].status = "disconnected"
          /\ \E n \in Names : instances[n] = NULL /\ instances'[n] = Len(objs')
     /\ \A c \in BagToSet(connectCalls) :
          FirstConnected(c) =>
            /\ instances'[c.name] = c.obj
            /\ objs'[c.obj].status = "connecting"
            /\ objs'[c.obj].socket = Len(sockets')
     /\ \A s \in SockIds :
          RenderedNow(s) =>
            /\ objs'[sockets[s].obj].status = "qr_code"
            /\ objs'[sockets[s].obj].qrCode
    ]_vars

\* The logout call on object o returns in this step.
LogoutDone(o) == o \in logoutCalls /\ o \notin logoutCalls'

\* C30: when logout(name) returns, the instance is still registered, with
\* status disconnected and qrCode, phoneNumber and profileName cleared, the
\* credential directory of the name is gone, and the call has scheduled no
\* reconnect.
C30_LogoutClearsAll ==
  [][\A n \in Registered :
       LogoutDone(instances[n]) =>
         /\ instances'[n] = instances[n]
         /\ objs'[instances[n]].status = "disconnected"
         /\ ~objs'[instances[n]].qrCode
         /\ ~objs'[instances[n]].phoneNumber
         /\ ~objs'[instances[n]].profileName
         /\ n \notin sessionDirs'
         /\ timers' = timers
    ]_vars

\* Every field of the instance registered under n, and the entries the
\* service keeps under that name.
FieldsOf(n) ==
  [inst |-> instances[n],
   rec |-> IF instances[n] = NULL THEN NewInstance ELSE Inst(n),
   attempts |-> reconnectAttempts[n],
   keepAlive |-> keepAliveIntervals[n],
   ticking |-> KeepAlivesOf(n),
   activity |-> lastActivity[n],
   received |-> lastMessageReceived[n],
   at |-> receivedAt[n],
   socks |-> [s \in SocketsOf(n) |-> sockets[s]]]

\* This step handles something that concerns the name n: an event of one of
\* its sockets, its reconnect timer firing, a connect for it starting or
\* resuming, its logout, or its delete.
Concerns(n) ==
  \/ \E s \in SocketsOf(n) : sockets'[s] # sockets[s]
  \/ \E t \in TimersOf(n) : FiredNow(t)
  \/ CallsOf(n, connectCalls') # CallsOf(n, connectCalls)
  \/ instances[n] # NULL /\ instances'[n] = NULL
  \/ instances[n] # NULL /\ LogoutDone(instances[n])
  \/ instances[n] # NULL /\ instances[n] \notin logoutCalls
        /\ instances[n] \in logoutCalls'

BearerValue(h) == IF h # <<>> /\ Head(h) = "Bearer " THEN Tail(h) ELSE h

\* The key a request presents: the Bearer value of its Authorization header,
\* else its x-api-key header.
ClaimedKey(q) ==
  IF BearerValue(q.authorization) # <<>> THEN BearerValue(q.authorization)
  ELSE q.xApiKey

\* C32: with a key configured, a request to a path other than /health is
\* passed on only if the key it presents equals the configured key, and is
\* answered 401 otherwise without a change of instance or webhook state;
\* /health is always passed, and so is every request when no key is
\* configured.
C32_KeyGuardsRoutes ==
  [][request' # request =>
       LET q == request' IN
       /\ q.answer \in {"next", "401"}
       /\ q.path = "/health" => q.answer = "next"
       /\ q.apiKey = <<>> => q.answer = "next"
       /\ (q.path # "/health" /\ q.apiKey # <<>> /\ q.answer = "next") =>
            ClaimedKey(q) = q.apiKey
       /\ q.answer = "401" =>
            UNCHANGED <<instances, objs, sockets, webhookUrl, deliveries>>
    ]_vars

\* A history handler runs a batch in this step.
HistoryNow ==
  \/ lastSync' # lastSync
  \/ syncs' # syncs
  \/ /\ Len(deliveries') > Len(deliveries)
     /\ deliveries'[Len(deliveries')].history

\* C33: a history handler sends its messages in batches of 50.  Each batch
\* dispatches one messages.upsert event flagged isHistorySync for each of its
\* messages that is not a status broadcast, in the order of the input; the
\* handler pauses after the batch exactly if messages remain, and goes on
\* with the message after the batch; lastMessageReceived and lastActivity
\* do not change.
C33_HistoryInBatches ==
  [][HistoryNow =>
       LET x == lastSync'
           last == IF x.from + 50 < x.n THEN x.from + 50 ELSE x.n
           kept == {p \in (x.from + 1)..last : p \notin x.status}
           more == x.from + 50 < x.n
       IN
       /\ webhookUrl # NULL =>
            /\ Len(deliveries') = Len(deliveries) + Cardinality(kept)
            /\ \A j \in 1..Cardinality(kept) :
                 LET d == deliveries'[Len(deliveries) + j] IN
                 /\ d.event = "messages.upsert"
                 /\ d.history
                 /\ d.msg \in kept
                 /\ j > 1 => deliveries'[Len(deliveries) + j - 1].msg < d.msg
                 /\ d.posts = 1
       /\ IF x.from = 0
          THEN Len(syncs') = Len(syncs) + (IF more THEN 1 ELSE 0)
          ELSE Len(syncs') = Len(syncs) - (IF more THEN 0 ELSE 1)
       /\ more => \E h \in DOMAIN syncs' :
                    syncs'[h] = [sock |-> x.sock, n |-> x.n,
                                 status |-> x.status, from |-> x.from + 50]
       /\ UNCHANGED <<lastMessageReceived, lastActivity, receivedAt>>
    ]_vars

\* C33 witness: a history event of 101 messages with a status broadcast at
\* position 51 has been sent in three batches, the handler has ended.
C33_Witness ==
  /\ syncs = <<>>
  /\ lastSync.n = 101 /\ lastSync.from = 100 /\ lastSync.status = {51}
  /\ Cardinality({i \in DOMAIN deliveries : deliveries[i].history}) = 100
  /\ deliveries[Len(deliveries)].msg = 101

\* Number of messages of msgs that are not status broadcasts.
NonStatus(msgs) == Cardinality({i \in DOMAIN msgs : msgs[i] # "status"})

\* Number of messages.upsert dispatches among dels.
Sent(dels) ==
  Cardinality({i \in DOMAIN dels : dels[i].event = "messages.upsert"})

\* Number of messages the suspended handlers ups have not forwarded yet: for
\* each handler the message it waits in and the messages after it that are
\* not status broadcasts.
RECURSIVE Owed(_)
Owed(ups) ==
  IF ups = <<>> THEN 0 ELSE 1 + NonStatus(Head(ups).rest) + Owed(Tail(ups))

\* C34: with an endpoint configured, a messages.upsert event of type notify
\* or append raises the number of dispatched messages.upsert events plus the
\* number of messages its handler still owes by the number of messages of
\* the batch that are not status broadcasts, and a handler that resumes from
\* an await keeps that sum, so that a handler that has ended has dispatched
\* exactly one event for each such message, also for messages to alias
\* addresses, and none for a status broadcast; an event of any other type
\* dispatches nothing, suspends nothing and changes no timestamp.
C34_OneEventPerMessage ==
  [][webhookUrl # NULL =>
       /\ \A type \in UpsertTypes :
            (/\ lastOp'.kind = "messages.upsert"
             /\ UpsertEvent(lastOp'.sock, type, lastOp'.msgs)) =>
              IF type \in {"notify", "append"}
              THEN /\ Sent(deliveries') + Owed(upserts')
                        = Sent(deliveries) + Owed(upserts)
                            + NonStatus(lastOp'.msgs)
                   /\ Len(deliveries') - Len(deliveries)
                        = Sent(deliveries') - Sent(deliveries)
                   /\ Len(deliveries') >= Len(deliveries)
              ELSE UNCHANGED <<deliveries, upserts, lastMessageReceived,
                               receivedAt, lastActivity>>
       /\ \A u \in DOMAIN upserts, ok \in BOOLEAN :
            UpsertResume(u, ok) =>
              /\ Sent(deliveries') + Owed(upserts')
                   = Sent(deliveries) + Owed(upserts)
              /\ Len(deliveries') - Len(deliveries)
                   = Sent(deliveries') - Sent(deliveries)
              /\ Len(deliveries') >= Len(deliveries)
    ]_vars

\* C34 witness: the handler of a batch has ended after the alias resolver,
\* and the one messages.upsert event dispatched carries downloaded media: a
\* message with media to an alias address was forwarded once.
C34_Witness ==
  /\ lastOp.kind = "alias"
  /\ upserts = <<>>
  /\ Sent(deliveries) = 1
  /\ \E i \in DOMAIN deliveries :
       deliveries[i].event = "messages.upsert" /\ deliveries[i].media

\* The socket s reports a connection opened, a connection closed or a
\* rendered pairing code in this step.
Reports(s) ==
  \/ sockets'[s].st \in {"open", "dead"} /\ sockets'[s].st # sockets[s].st
  \/ sockets[s].rendering /\ ~sockets'[s].rendering

\* C35: once connect has installed a newer socket in an instance, a
\* connection-opened, connection-closed or pairing-code event of an older
\* socket of that instance changes no field of the instance and not its
\* reconnect counter, and schedules no reconnect.
C35_SupersededSilent ==
  [][\A s \in SockIds :
       LET o == sockets[s].obj
           n == sockets[s].name
       IN
       (objs[o].socket # NULL /\ objs[o].socket > s /\ Reports(s)) =>
         /\ objs'[o] = objs[o]
         /\ reconnectAttempts'[n] = reconnectAttempts[n]
         /\ timers' = timers
    ]_vars

\* C36: a socket is created only for the record that is registered under its
\* name at that time: a connect call that resumes after its name was deleted
\* creates none; and a reconnect timer that fires while its name is deleted
\* starts no connect.
C36_NoSocketAfterDelete ==
  [][/\ Len(sockets') > Len(sockets) =>
          LET s == sockets'[Len(sockets')] IN instances[s.name] = s.obj
     /\ \A t \in BagToSet(timers) :
          (deleted[t.name] /\ timers' = timers (-) One(t)) =>
            connectCalls' = connectCalls
    ]_vars

\* The fields of the Instance object o that logout writes.
LogoutFields(o) ==
  <<objs[o].status, objs[o].qrCode, objs[o].phoneNumber, objs[o].profileName>>

\* C37: a logout call on an instance with a socket writes no field when it
\* calls socket.logout(), and when socket.logout() rejects the error reaches
\* the caller and status, qrCode, phoneNumber and profileName of the
\* instance stay as they are.
C37_FailedLogoutWritesNothing ==
  [][/\ \A n \in Names :
          (/\ instances[n] # NULL
           /\ objs[instances[n]].socket # NULL
           /\ LogoutCall(n)) => UNCHANGED objs
     /\ \A o \in logoutCalls :
          LogoutReject(o) =>
            /\ LogoutFields(o)' = LogoutFields(o)
            /\ lastOp'.kind = "logout" /\ ~lastOp'.ok
            /\ o \notin logoutCalls'
    ]_vars

\* C37 witness: a logout of a connected instance was rejected, and the
\* instance is still connected with its identity.
C37_Witness ==
  /\ lastOp.kind = "logout" /\ ~lastOp.ok
  /\ "a" \in Registered
  /\ Inst("a").status = "connected"
  /\ Inst("a").phoneNumber
  /\ logoutCalls = {}

\* C38: createInstance for a name that is registered returns the record of
\* that name and changes nothing: no record and no socket is created, no
\* connect is called, the registry and every field of every record stay as
\* they are, also while the connect of the first call is in progress.
C38_CreateIsIdempotent ==
  [][\A n \in Names :
       CreateExisting(n) =>
         /\ lastOp'.kind = "createInstance" /\ lastOp'.name = n /\ lastOp'.ok
         /\ UNCHANGED <<instances, objs, sockets, connectCalls, timers,
                        sessionDirs, reconnectAttempts, connectedAt>>
    ]_vars

\* C38 witness: createInstance was called for a registered name while the
\* connect of its first call was in progress: the record is still
\* disconnected and has no socket, one connect call is pending.
C38_Witness ==
  /\ lastOp.kind = "createInstance"
  /\ lastOp.name \in Registered
  /\ Inst(lastOp.name).status = "disconnected"
  /\ Inst(lastOp.name).socket = NULL
  /\ BagSize(connectCalls) = 1

\* C39: when the server listens, every session directory that was on disk at
\* startup has a registered instance that has left the status disconnected,
\* and the zombie sweep is running, also after a session failed to load.
C39_StartupLoadsAll ==
  boot.st = "listening" =>
    /\ zombieCheckInterval
    /\ \A n \in boot.found :
         /\ instances[n] # NULL
         /\ objs[instances[n]].status # "disconnected"

\* The sendWebhook call of delivery i has returned for good: delivered,
\* dropped after its last attempt, or skipped for want of an endpoint.
Ended(i) ==
  /\ i \in DOMAIN deliveries
  /\ deliveries[i].st \in {"ok", "failed", "skipped"}

\* C40: when every request settles, every dispatch ends, delivered or
\* dropped, after at most 4 requests and 3 waits.
C40_DispatchTerminates ==
  \A i \in 1..MaxEvents :
    (i \in DOMAIN deliveries) ~>
      (/\ Ended(i)
       /\ deliveries[i].posts <= 4
       /\ Len(deliveries[i].waited) <= 3)

\* C40 witness: a dispatch has ended dropped after 4 requests and 3 waits,
\* and another one delivered at its first request.
C40_Witness ==
  \E i, j \in DOMAIN deliveries :
    /\ Ended(i) /\ deliveries[i].st = "failed"
    /\ deliveries[i].posts = 4 /\ Len(deliveries[i].waited) = 3
    /\ Ended(j) /\ deliveries[j].st = "ok" /\ deliveries[j].posts = 1
====
